---------------------------- MODULE Spec2Model ----------------------------
(***************************************************************************)
(* A model of the portfolio engine of mfdashboard: the transaction log of  *)
(* portfolio_manager.PortfolioManager, its persistence, the average-cost   *)
(* holdings view (get_holdings) and the FIFO capital-gains engine          *)
(* (calculate_capital_gains).                                              *)
(*                                                                         *)
(* Numbers.  Python floats are modelled as exact fixed-point numbers:      *)
(*   - a quantity of units is an integer count of 1/UnitScale units, one   *)
(*     decimal digit finer than the 3 decimals round(units, 3) keeps;      *)
(*   - a NAV (price) is a whole number of rupees;                          *)
(*   - an amount of money is an integer count of 1/UnitScale rupees (the   *)
(*     product of a quantity and a NAV);                                   *)
(*   - a value that the code obtains by a division is an exact fraction    *)
(*     <<numerator, denominator>> until the code rounds it.                *)
(* A date 'YYYY-MM-DD' is the number of the day it names: for well-formed  *)
(* dates the order of the strings is the order of the days, and the        *)
(* difference of two parsed dates is the difference of the day numbers.    *)
(***************************************************************************)
EXTENDS Integers, Sequences, FiniteSets

VARIABLES
    transactions,   \* self.transactions: the list of Transaction objects
    portfolio_file, \* the 'transactions' list of the JSON file on disk
    last_call,      \* the method call that produced the current state
    returned,       \* what that call returned
    raised,         \* the exception that call raised, or None
    matching,       \* one entry per iteration of the FIFO matching loop of
                    \* the last calculate_capital_gains call
    solver,         \* the locals of a call of backend/calculations.py that
                    \* is under way: where it stands (pc), and for xirr its
                    \* lists, rate, npv, dnpv and iteration count
    portfolio_data  \* self.data of a backend Portfolio: its accounts, each
                    \* with the holdings of one PAN

vars ==
    <<transactions, portfolio_file, last_call, returned, raised, matching, solver,
      portfolio_data>>

---------------------------------------------------------------------------
(* Bounds of the model and constants of the program *)

\* The longest transaction log the model builds.
MaxTxns == 3

\* 10 * 10^3: quantities are counted in 1/10000 units.
UnitScale == 10 * 1000

EQUITY_LTCG_DAYS == 365

DEBT_LTCG_DAYS == 1095

None == "None"

---------------------------------------------------------------------------
(* Arithmetic helpers *)

Min(a, b) == IF a <= b THEN a ELSE b

Abs(a) == IF a < 0 THEN -a ELSE a

RECURSIVE GCD(_, _)
GCD(a, b) == IF b = 0 THEN Abs(a) ELSE GCD(b, a % Abs(b))

\* x rounded to the nearest multiple of q, a tie going to the even multiple:
\* Python's round(x, n) for a fixed-point x and q = the weight of digit n.
RoundTo(x, q) ==
    LET r  == x % q
        lo == x - r
    IN  IF 2 * r < q THEN lo
        ELSE IF 2 * r > q THEN lo + q
        ELSE IF (lo \div q) % 2 = 0 THEN lo ELSE lo + q

\* round(units, 3) on a quantity counted in 1/UnitScale units.
Round3(u) == RoundTo(u, UnitScale \div 1000)

\* round(amount, 2) on an amount counted in 1/UnitScale rupees.
Round2(a) == RoundTo(a, UnitScale \div 100)

\* int(units): truncation towards zero to whole units.
IntUnits(u) ==
    IF u >= 0 THEN (u \div UnitScale) * UnitScale
    ELSE -(((-u) \div UnitScale) * UnitScale)

---------------------------------------------------------------------------
(* Transaction and the transaction log *)

\* str.upper() on the transaction types the callers pass.
Upper(s) ==
    CASE s = "buy"      -> "BUY"
      [] s = "sell"     -> "SELL"
      [] s = "dividend" -> "DIVIDEND"
      [] OTHER          -> s

\* Transaction(...) as add_transaction builds it.
NewTransaction(date, scheme_code, scheme_name, transaction_type, units, nav, asset_type, exchange, notes) ==
    LET u == IF asset_type = "STOCK" THEN IntUnits(units) ELSE units
    IN  [date             |-> date,
         scheme_code      |-> scheme_code,
         scheme_name      |-> scheme_name,
         transaction_type |-> Upper(transaction_type),
         units            |-> u,
         nav              |-> nav,
         amount           |-> u * nav,
         asset_type       |-> asset_type,
         exchange         |-> exchange,
         notes            |-> notes]

\* A faulty InsertByDate: t goes before the entries of its own date.
RECURSIVE InsertByDate_BeforeTies(_, _)
InsertByDate_BeforeTies(s, t) ==
    IF s = <<>> THEN <<t>>
    ELSE IF s[Len(s)].date < t.date THEN Append(s, t)
    ELSE Append(InsertByDate_BeforeTies(SubSeq(s, 1, Len(s) - 1), t), s[Len(s)])

\* t put into the date-sorted list s behind every entry whose date is not
\* later: one insertion of a stable sort by date.
RECURSIVE InsertByDate(_, _)
InsertByDate(s, t) ==
    IF s = <<>> THEN <<t>>
    ELSE IF s[Len(s)].date <= t.date THEN Append(s, t)
    ELSE Append(InsertByDate(SubSeq(s, 1, Len(s) - 1), t), s[Len(s)])

\* list.sort(key=lambda t: t.date): a stable sort by date.
RECURSIVE SortByDate(_)
SortByDate(s) ==
    IF s = <<>> THEN <<>>
    ELSE InsertByDate(SortByDate(SubSeq(s, 1, Len(s) - 1)), s[Len(s)])

\* s without its element at the 0-based index i: list.pop(i).
Pop(s, i) == SubSeq(s, 1, i) \o SubSeq(s, i + 2, Len(s))

\* Transaction.to_dict: asdict, a dict of every field of the dataclass.
ToDict(t) == t

\* Transaction.from_dict: the fields added for stocks default when the
\* dict (written before they existed) lacks them.
FromDict(data) ==
    [date             |-> data.date,
     scheme_code      |-> data.scheme_code,
     scheme_name      |-> data.scheme_name,
     transaction_type |-> data.transaction_type,
     units            |-> data.units,
     nav              |-> data.nav,
     amount           |-> data.amount,
     asset_type       |-> IF "asset_type" \in DOMAIN data
                          THEN data.asset_type ELSE "MUTUAL_FUND",
     exchange         |-> IF "exchange" \in DOMAIN data
                          THEN data.exchange ELSE "",
     notes            |-> IF "notes" \in DOMAIN data
                          THEN data.notes ELSE ""]

\* save_portfolio: the file's 'transactions' list.
SavePortfolio(txns) == [i \in 1..Len(txns) |-> ToDict(txns[i])]

\* load_portfolio: the Transaction list read from the file.
LoadPortfolio(file) == [i \in 1..Len(file) |-> FromDict(file[i])]

---------------------------------------------------------------------------
(* The FIFO capital-gains engine: PortfolioManager.calculate_capital_gains *)

\* ltcg_days: the holding period from which a gain is long-term.
LtcgDays(is_equity) == IF is_equity THEN EQUITY_LTCG_DAYS ELSE DEBT_LTCG_DAYS

\* The transactions the call looks at, as positions in self.transactions:
\* the filtered list holds the same Transaction objects, not copies.
FilterTransactions(txns, scheme_code) ==
    SelectSeq([i \in 1..Len(txns) |-> i],
              LAMBDA i : scheme_code \in {None, ""} \/ txns[i].scheme_code = scheme_code)

\* A faulty SchemeIndex: every transaction goes to the first scheme.
SchemeIndex_FirstScheme(schemes, c) == IF schemes = <<>> THEN 0 ELSE 1

\* The position of scheme code c in the dict schemes (0: not a key).
SchemeIndex(schemes, c) ==
    IF \E k \in 1..Len(schemes) : schemes[k].code = c
    THEN CHOOSE k \in 1..Len(schemes) : schemes[k].code = c
    ELSE 0

\* The dict schemes, in insertion order: per scheme code its name and the
\* positions of its BUY and of its SELL transactions, in list order.
RECURSIVE GroupByScheme(_, _, _)
GroupByScheme(txns, idxs, schemes) ==
    IF idxs = <<>> THEN schemes
    ELSE LET txn == txns[Head(idxs)]
             s1  == IF SchemeIndex(schemes, txn.scheme_code) = 0
                    THEN Append(schemes, [code  |-> txn.scheme_code,
                                          name  |-> txn.scheme_name,
                                          buys  |-> <<>>,
                                          sells |-> <<>>])
                    ELSE schemes
             k   == SchemeIndex(s1, txn.scheme_code)
             s2  == IF txn.transaction_type = "BUY"
                    THEN [s1 EXCEPT ![k].buys = Append(@, Head(idxs))]
                    ELSE IF txn.transaction_type = "SELL"
                    THEN [s1 EXCEPT ![k].sells = Append(@, Head(idxs))]
                    ELSE s1
         IN  GroupByScheme(txns, Tail(idxs), s2)

\* A faulty NextLot: the newest lot first (LIFO).
NextLot_Newest(buy_queue) == buy_queue[Len(buy_queue)]

\* buy_txn = buy_queue[0]: the lot an iteration takes from.
NextLot(buy_queue) == Head(buy_queue)

\* A faulty GainType: long term only after the threshold has passed.
GainType_After(holding_days, ltcg_days) ==
    IF holding_days > ltcg_days THEN "LTCG" ELSE "STCG"

\* A faulty UnitsFromBuy: the whole lot, whatever is outstanding.
UnitsFromBuy_WholeLot(units_to_sell, buy_units) == buy_units

\* A faulty UnitsFromBuy: the whole outstanding quantity, whatever the lot
\* holds.
UnitsFromBuy_NoMin(units_to_sell, buy_units) == units_to_sell

\* A faulty UnitsFromBuy: at most 25 units in one iteration.
UnitsFromBuy_Capped(units_to_sell, buy_units) ==
    Min(Min(units_to_sell, buy_units), 25 * UnitScale)

\* units_from_buy: what one iteration takes from the lot at the queue head.
UnitsFromBuy(units_to_sell, buy_units) == Min(units_to_sell, buy_units)

\* A faulty HoldingDays: the days from the sale to the purchase.
HoldingDays_Reversed(sell_date, buy_date) == buy_date - sell_date

\* holding_days: the days between the two parsed dates.
HoldingDays(sell_date, buy_date) == sell_date - buy_date

\* if buy_txn.units <= 0: the lot leaves the queue.
LotExhausted(units) == units <= 0

\* gain_type of a pairing.
GainType(holding_days, ltcg_days) ==
    IF holding_days >= ltcg_days THEN "LTCG" ELSE "STCG"

\* The digits of a long division: quotient q and remainder r of a division
\* by d, carried k decimal digits further.
RECURSIVE LongDivide(_, _, _, _)
LongDivide(q, r, d, k) ==
    IF k = 0 THEN <<q, r>>
    ELSE LongDivide(q * 10 + ((r * 10) \div d), (r * 10) % d, d, k - 1)

\* round(n / d, k) for d > 0, counted in units of 10^-k (ties to even).
RoundQuot(n, d, k) ==
    LET a  == Abs(n)
        qr == LongDivide(a \div d, a % d, d, k)
        up == IF 2 * qr[2] > d \/ (2 * qr[2] = d /\ qr[1] % 2 = 1)
              THEN qr[1] + 1 ELSE qr[1]
    IN  IF n < 0 THEN -up ELSE up

\* round(gain_pct, 2), in hundredths of a percent.
GainPct(gain, purchase_amount) ==
    IF purchase_amount > 0 THEN RoundQuot(gain, purchase_amount, 4) ELSE 0

\* The CapitalGain record of one (sell, lot) pairing.
MakeCapitalGain(sell_txn, buy_txn, scode, name, units_from_buy, ltcg_days) ==
    LET holding_days    == HoldingDays(sell_txn.date, buy_txn.date)
        purchase_amount == units_from_buy * buy_txn.nav
        sale_amount     == units_from_buy * sell_txn.nav
        gain            == sale_amount - purchase_amount
    IN  [sale_date            |-> sell_txn.date,
         scheme_code          |-> scode,
         scheme_name          |-> name,
         units_sold           |-> Round3(units_from_buy),
         sale_nav             |-> sell_txn.nav,   \* round(nav, 4) of whole rupees
         sale_amount          |-> Round2(sale_amount),
         purchase_nav         |-> buy_txn.nav,
         purchase_amount      |-> Round2(purchase_amount),
         gain_loss            |-> Round2(gain),
         gain_loss_percentage |-> GainPct(gain, purchase_amount),
         holding_period_days  |-> holding_days,
         gain_type            |-> GainType(holding_days, ltcg_days)]

\* buy_txn.units -= units_from_buy: the lot at the queue head is the
\* Transaction object of the log itself (buy_queue copies the list, not
\* its elements), so the write lands in self.transactions.
DecrementLot(txns, b, units_from_buy) ==
    [txns EXCEPT ![b].units = @ - units_from_buy]

\* One iteration of the matching loop for the SELL at position sell: the
\* state st of the call holds the log (txns), the lot queue, the SELL's
\* outstanding quantity and the records so far.
MatchIteration(st, sell, scheme, ltcg_days) ==
    LET b              == NextLot(st.buy_queue)
        buy_txn        == st.txns[b]
        sell_txn       == st.txns[sell]
        units_from_buy == UnitsFromBuy(st.units_to_sell, buy_txn.units)
        txns1          == DecrementLot(st.txns, b, units_from_buy)
        popped         == LotExhausted(txns1[b].units)
    IN  [txns          |-> txns1,
         buy_queue     |-> IF popped THEN Tail(st.buy_queue) ELSE st.buy_queue,
         units_to_sell |-> st.units_to_sell - units_from_buy,
         capital_gains |-> Append(st.capital_gains,
                              MakeCapitalGain(sell_txn, buy_txn, scheme.code,
                                  scheme.name, units_from_buy, ltcg_days)),
         steps         |-> Append(st.steps,
                              [sell           |-> sell,
                               lot            |-> b,
                               units_to_sell  |-> st.units_to_sell,
                               lot_units      |-> buy_txn.units,
                               units_from_buy |-> units_from_buy,
                               lot_left       |-> txns1[b].units,
                               popped         |-> popped]),
         sells_done    |-> st.sells_done]

\* while units_to_sell > 0 and buy_queue
RECURSIVE MatchLoop(_, _, _, _)
MatchLoop(st, sell, scheme, ltcg_days) ==
    IF st.units_to_sell > 0 /\ st.buy_queue # <<>>
    THEN MatchLoop(MatchIteration(st, sell, scheme, ltcg_days), sell, scheme, ltcg_days)
    ELSE st

\* for sell_txn in data['sells']; sells_done notes the quantity of each SELL
\* still outstanding when its loop ends (the code drops it).
RECURSIVE SellLoop(_, _, _, _)
SellLoop(st, sells, scheme, ltcg_days) ==
    IF sells = <<>> THEN st
    ELSE LET sell == Head(sells)
             st1  == MatchLoop([st EXCEPT !.units_to_sell = st.txns[sell].units],
                               sell, scheme, ltcg_days)
             st2  == [st1 EXCEPT !.sells_done =
                         Append(@, [sell        |-> sell,
                                    units       |-> st.txns[sell].units,
                                    outstanding |-> st1.units_to_sell])]
         IN  SellLoop(st2, Tail(sells), scheme, ltcg_days)

\* for scode, data in schemes.items(), with buy_queue = data['buys'].copy()
RECURSIVE SchemeLoop(_, _, _)
SchemeLoop(st, schemes, ltcg_days) ==
    IF schemes = <<>> THEN st
    ELSE LET scheme == Head(schemes)
             st1    == SellLoop([st EXCEPT !.buy_queue = scheme.buys],
                                scheme.sells, scheme, ltcg_days)
         IN  SchemeLoop(st1, Tail(schemes), ltcg_days)

\* The whole call on the log txns: the records returned (capital_gains),
\* the log it leaves (txns) and the trace of its matching loop.
RunCapitalGains(txns, scheme_code, is_equity) ==
    SchemeLoop([txns          |-> txns,
                buy_queue     |-> <<>>,
                units_to_sell |-> 0,
                capital_gains |-> <<>>,
                steps         |-> <<>>,
                sells_done    |-> <<>>],
               GroupByScheme(txns, FilterTransactions(txns, scheme_code), <<>>),
               LtcgDays(is_equity))

---------------------------------------------------------------------------
(* The holdings view: PortfolioManager.get_holdings *)

\* The fraction n/d in lowest terms, its denominator positive.
Frac(n, d) ==
    LET g == GCD(n, d)
    IN  IF d < 0 THEN <<(-n) \div g, (-d) \div g>> ELSE <<n \div g, d \div g>>

\* f + k, f * k and f / k for a fraction f and an integer k (k > 0 in f / k).
FracAddInt(f, k) == Frac(f[1] + k * f[2], f[2])

FracMulInt(f, k) ==
    LET g == GCD(k, f[2])
    IN  Frac(f[1] * (k \div g), f[2] \div g)

FracDivInt(f, k) ==
    LET g == GCD(f[1], k)
    IN  IF f[1] = 0 THEN <<0, 1>> ELSE Frac(f[1] \div g, f[2] * (k \div g))

\* f - h and f / h for fractions (h > 0 in f / h).
FracSub(f, h) ==
    LET g == GCD(f[2], h[2])
    IN  Frac(f[1] * (h[2] \div g) - h[1] * (f[2] \div g), f[2] * (h[2] \div g))

FracDiv(f, h) ==
    LET g1 == GCD(f[1], h[1])
        g2 == GCD(f[2], h[2])
    IN  IF f[1] = 0 THEN <<0, 1>>
        ELSE Frac((f[1] \div g1) * (h[2] \div g2), (f[2] \div g2) * (h[1] \div g1))

\* round(f, k) of a fraction, counted in units of 10^-k.
RoundFrac(f, k) == RoundQuot(f[1], f[2], k)

\* round(f, 2) of an amount counted in 1/UnitScale rupees, counted so again.
Round2Frac(f) == RoundQuot(f[1], f[2] * (UnitScale \div 100), 0) * (UnitScale \div 100)

\* The position of scheme code c in holdings_dict (0: not a key).
HoldingIndex(holdings_dict, c) ==
    IF \E k \in 1..Len(holdings_dict) : holdings_dict[k].scheme_code = c
    THEN CHOOSE k \in 1..Len(holdings_dict) : holdings_dict[k].scheme_code = c
    ELSE 0

\* A faulty ApplyToHolding: a SELL takes its own amount (units at the sale
\* price) off the invested amount.
ApplyToHolding_AtSalePrice(holding, txn) ==
    IF txn.transaction_type = "BUY"
    THEN [holding EXCEPT !.total_units = @ + txn.units,
                         !.invested_amount = FracAddInt(@, txn.amount)]
    ELSE IF holding.total_units - txn.units > 0
    THEN [holding EXCEPT !.total_units = @ - txn.units,
                         !.invested_amount = FracAddInt(@, -txn.amount)]
    ELSE [holding EXCEPT !.total_units = @ - txn.units,
                         !.invested_amount = <<0, 1>>]

\* What one transaction does to its entry of holdings_dict: a BUY adds its
\* units and amount, a SELL takes its units and the average cost of them.
ApplyToHolding(holding, txn) ==
    IF txn.transaction_type = "BUY"
    THEN [holding EXCEPT !.total_units = @ + txn.units,
                         !.invested_amount = FracAddInt(@, txn.amount)]
    ELSE IF txn.transaction_type = "SELL"
    THEN LET total_units == holding.total_units - txn.units
         IN  IF total_units > 0
             THEN LET avg_nav == FracDivInt(holding.invested_amount,
                                            total_units + txn.units)
                  IN  [holding EXCEPT
                          !.total_units = total_units,
                          !.invested_amount = FracSub(@, FracMulInt(avg_nav, txn.units))]
             ELSE [holding EXCEPT !.total_units = total_units,
                                  !.invested_amount = <<0, 1>>]
    ELSE holding

\* for txn in self.transactions: holdings_dict in insertion order.
RECURSIVE ReplayHoldings(_, _, _)
ReplayHoldings(txns, asset_type_filter, holdings_dict) ==
    IF txns = <<>> THEN holdings_dict
    ELSE LET txn == Head(txns)
         IN  IF asset_type_filter \notin {None, ""} /\ txn.asset_type # asset_type_filter
             THEN ReplayHoldings(Tail(txns), asset_type_filter, holdings_dict)
             ELSE LET h1 == IF HoldingIndex(holdings_dict, txn.scheme_code) = 0
                            THEN Append(holdings_dict,
                                        [scheme_code     |-> txn.scheme_code,
                                         scheme_name     |-> txn.scheme_name,
                                         total_units     |-> 0,
                                         invested_amount |-> <<0, 1>>,
                                         asset_type      |-> txn.asset_type,
                                         exchange        |-> txn.exchange])
                            ELSE holdings_dict
                      k  == HoldingIndex(h1, txn.scheme_code)
                  IN  ReplayHoldings(Tail(txns), asset_type_filter,
                                     [h1 EXCEPT ![k] = ApplyToHolding(@, txn)])

\* current_navs.get(scheme_code, 0)
CurrentNav(current_navs, scheme_code) ==
    IF scheme_code \in DOMAIN current_navs THEN current_navs[scheme_code] ELSE 0

\* The Holding built from an entry of holdings_dict with total_units > 0:
\* units and amounts counted in 1/UnitScale, average_nav in 1/10000 rupee,
\* gain_loss_percentage in hundredths of a percent.
MakeHolding(data, current_nav) ==
    LET average_nav   == FracDivInt(data.invested_amount, data.total_units)
        current_value == data.total_units * current_nav
        gain_loss     == FracSub(<<current_value, 1>>, data.invested_amount)
        gain_loss_pct == IF data.invested_amount[1] > 0
                         THEN RoundFrac(FracDiv(gain_loss, data.invested_amount), 4)
                         ELSE 0
    IN  [scheme_code          |-> data.scheme_code,
         scheme_name          |-> data.scheme_name,
         total_units          |-> Round3(data.total_units),
         average_nav          |-> RoundFrac(average_nav, 4),
         invested_amount      |-> Round2Frac(data.invested_amount),
         current_nav          |-> current_nav,   \* round(nav, 4) of whole rupees
         current_value        |-> Round2(current_value),
         gain_loss            |-> Round2Frac(gain_loss),
         gain_loss_percentage |-> gain_loss_pct,
         asset_type           |-> data.asset_type,
         exchange             |-> data.exchange]

\* if data['total_units'] <= 0: continue
SoldOut(data) == data.total_units <= 0

\* h put into the list s, sorted by current_value descending, behind every
\* entry whose value is not smaller: sorted(..., reverse=True) is stable.
RECURSIVE InsertByValue(_, _)
InsertByValue(s, h) ==
    IF s = <<>> THEN <<h>>
    ELSE IF s[Len(s)].current_value >= h.current_value THEN Append(s, h)
    ELSE Append(InsertByValue(SubSeq(s, 1, Len(s) - 1), h), s[Len(s)])

\* The Holding list: the entries not sold out, sorted by current value.
RECURSIVE BuildHoldings(_, _, _)
BuildHoldings(holdings_dict, current_navs, holdings) ==
    IF holdings_dict = <<>> THEN holdings
    ELSE LET data == Head(holdings_dict)
         IN  IF SoldOut(data)
             THEN BuildHoldings(Tail(holdings_dict), current_navs, holdings)
             ELSE BuildHoldings(Tail(holdings_dict), current_navs,
                     InsertByValue(holdings,
                         MakeHolding(data, CurrentNav(current_navs, data.scheme_code))))

\* get_holdings(current_navs, asset_type_filter) on the log txns.
RunGetHoldings(txns, current_navs, asset_type_filter) ==
    BuildHoldings(ReplayHoldings(txns, asset_type_filter, <<>>), current_navs, <<>>)

---------------------------------------------------------------------------
(* Floating-point numbers.  A Python float is modelled as a decimal float
   <<m, e>> of value m * 10^e with a mantissa of four digits (m = 0, or
   1000 <= |m| <= 9999); every operation rounds its exact result to
   the nearest such number, a tie going to the even mantissa. *)

\* 10 * 10^3: mantissas lie below it.
MantissaLimit == 10 * 1000

RECURSIVE Pow10(_)
Pow10(k) == IF k <= 0 THEN 1 ELSE 10 * Pow10(k - 1)

\* The number of decimal digits of n > 0.
RECURSIVE NumDigits(_)
NumDigits(n) == IF n < 10 THEN 1 ELSE 1 + NumDigits(n \div 10)

\* The float nearest to m * 10^e.
RECURSIVE Float(_, _)
Float(m, e) ==
    IF m = 0 THEN <<0, 0>>
    ELSE LET digits == NumDigits(Abs(m))
         IN  IF digits < 4 THEN <<m * Pow10(4 - digits), e - (4 - digits)>>
             ELSE IF digits = 4 THEN <<m, e>>
             ELSE Float(RoundTo(m, Pow10(digits - 4)) \div Pow10(digits - 4),
                        e + (digits - 4))

FZero == <<0, 0>>

FOne == <<1000, -3>>

FNeg(a) == <<-a[1], a[2]>>

FAbs(a) == <<Abs(a[1]), a[2]>>

\* a + b: the smaller operand is aligned to the larger one; more than five
\* digits below it, it is below half a unit of the last place.
FAdd(a, b) ==
    IF a[1] = 0 THEN b
    ELSE IF b[1] = 0 THEN a
    ELSE LET hi == IF a[2] >= b[2] THEN a ELSE b
             lo == IF a[2] >= b[2] THEN b ELSE a
             shift == hi[2] - lo[2]
         IN  IF shift > 5 THEN hi
             ELSE Float(hi[1] * Pow10(shift) + lo[1], lo[2])

FSub(a, b) == FAdd(a, FNeg(b))

FMul(a, b) == Float(a[1] * b[1], a[2] + b[2])

\* a / b for b # 0, rounded once.
FDiv(a, b) ==
    IF a[1] = 0 THEN FZero
    ELSE LET n     == Abs(a[1]) * MantissaLimit
             d     == Abs(b[1])
             wide  == (n \div d) >= MantissaLimit
             q     == IF wide THEN RoundQuot(n, d * 10, 0) ELSE RoundQuot(n, d, 0)
             e     == a[2] - b[2] - 4 + (IF wide THEN 1 ELSE 0)
             sign  == IF (a[1] < 0) = (b[1] < 0) THEN 1 ELSE -1
         IN  Float(sign * q, e)

\* a < b
FLess(a, b) ==
    IF a[1] = 0 THEN b[1] > 0
    ELSE IF b[1] = 0 THEN a[1] < 0
    ELSE IF (a[1] < 0) # (b[1] < 0) THEN a[1] < 0
    ELSE IF a[2] # b[2] THEN (a[2] < b[2]) = (a[1] > 0)
    ELSE a[1] < b[1]

\* float(n) of an integer
FromInt(n) == Float(n, 0)

\* The largest integer whose square is at most n, by Newton's iteration from
\* above.
RECURSIVE ISqrtFrom(_, _)
ISqrtFrom(n, x) ==
    LET y == (x + n \div x) \div 2
    IN  IF y >= x THEN x ELSE ISqrtFrom(n, y)

ISqrt(n) == IF n = 0 THEN 0 ELSE ISqrtFrom(n, 46340)

\* math.sqrt(a) for a >= 0
FSqrt(a) ==
    IF a[1] = 0 THEN FZero
    ELSE IF a[2] % 2 = 0
    THEN Float(ISqrt(a[1] * Pow10(4)), (a[2] - 4) \div 2)
    ELSE Float(ISqrt(a[1] * Pow10(5)), (a[2] - 5) \div 2)

\* a ** n for an integer n >= 0, by repeated multiplication.
RECURSIVE FPowInt(_, _)
FPowInt(a, n) ==
    IF n = 0 THEN FOne
    ELSE IF n % 2 = 0 THEN LET h == FPowInt(a, n \div 2) IN FMul(h, h)
    ELSE FMul(a, FPowInt(a, n - 1))

\* a ** (r / d) for 0 <= r < d: the binary digits of r / d select which of
\* the repeated square roots of a are multiplied (bits digits are used).
RECURSIVE FPowFraction(_, _, _, _)
FPowFraction(root, r, d, bits) ==
    IF bits = 0 \/ r = 0 THEN FOne
    ELSE LET half == FSqrt(root)
             rest == FPowFraction(half, (2 * r) % d, d, bits - 1)
         IN  IF 2 * r >= d THEN FMul(half, rest) ELSE rest

\* a ** b for a > 0 and b >= 0: the whole part of b by multiplication, its
\* fraction by square roots.
FPow(a, b) ==
    IF b[1] = 0 THEN FOne
    ELSE IF b[2] >= 0 THEN FPowInt(a, b[1] * Pow10(b[2]))
    ELSE IF b[2] < -9 THEN FOne
    ELSE LET d == Pow10(-b[2])
         IN  FMul(FPowInt(a, b[1] \div d), FPowFraction(a, b[1] % d, d, 16))

---------------------------------------------------------------------------
(* backend/calculations.py: xirr, calculate_absolute_return, calculate_cagr.
   A cash flow is a record [date, amount], date a day number and amount a
   float. *)

max_iterations == 100

\* tolerance = 1e-6
Tolerance == <<1000, -9>>

\* 0.01, the bound of the final test
LooseTolerance == <<1000, -5>>

\* 1e-10, below which the derivative counts as vanished
DerivativeFloor == <<1000, -13>>

\* -0.99 and 10, the bounds the rate is kept within
RateMin == <<-9900, -4>>

RateMax == <<1000, -2>>

\* A faulty TooFewCashFlows: a single cash flow is let through.
TooFewCashFlows_OnlyEmpty(cash_flows) == Len(cash_flows) < 1

\* not transactions or len(transactions) < 2
TooFewCashFlows(cash_flows) == Len(cash_flows) < 2

\* A faulty SortCashFlows: the caller's list is sorted in place.
SortCashFlows_InPlace(cash_flows) ==
    [transactions |-> SortByDate(cash_flows), sorted_txns |-> SortByDate(cash_flows)]

\* sorted_txns = sorted(transactions, key=lambda x: x['date']): a new list,
\* next to the caller's list as the call leaves it.
SortCashFlows(cash_flows) ==
    [transactions |-> cash_flows, sorted_txns |-> SortByDate(cash_flows)]

\* days_amounts: the days from the first date, and the amount, of each flow.
DaysAmounts(sorted_txns) ==
    [i \in 1..Len(sorted_txns) |->
        [days   |-> sorted_txns[i].date - sorted_txns[1].date,
         amount |-> sorted_txns[i].amount]]

\* days / 365.0
YearFraction(days) == FDiv(FromInt(days), FromInt(365))

\* factor = (1 + rate) ** (days / 365.0)
Factor(rate, days) == FPow(FAdd(FOne, rate), YearFraction(days))

\* npv after the first k cash flows: npv += amount / factor
RECURSIVE Npv(_, _, _)
Npv(days_amounts, rate, k) ==
    IF k = 0 THEN FZero
    ELSE FAdd(Npv(days_amounts, rate, k - 1),
              FDiv(days_amounts[k].amount, Factor(rate, days_amounts[k].days)))

\* dnpv after the first k cash flows:
\* dnpv -= (days / 365.0) * amount / (factor * (1 + rate))
RECURSIVE Dnpv(_, _, _)
Dnpv(days_amounts, rate, k) ==
    IF k = 0 THEN FZero
    ELSE FSub(Dnpv(days_amounts, rate, k - 1),
              FDiv(FMul(YearFraction(days_amounts[k].days), days_amounts[k].amount),
                   FMul(Factor(rate, days_amounts[k].days), FAdd(FOne, rate))))

\* A faulty Converged: any npv below 1 counts.
Converged_BelowOne(npv) == FLess(FAbs(npv), FOne)

\* abs(npv) < tolerance
Converged(npv) == FLess(FAbs(npv), Tolerance)

\* abs(dnpv) < 1e-10
DerivativeVanished(dnpv) == FLess(FAbs(dnpv), DerivativeFloor)

\* A faulty Clamp: only the upper bound is kept.
Clamp_UpperOnly(rate) == IF FLess(RateMax, rate) THEN RateMax ELSE rate

\* if rate < -0.99: rate = -0.99 elif rate > 10: rate = 10
Clamp(rate) ==
    IF FLess(rate, RateMin) THEN RateMin
    ELSE IF FLess(RateMax, rate) THEN RateMax
    ELSE rate

\* rate = rate - npv / dnpv, then kept within the bounds
NewtonUpdate(rate, npv, dnpv) == Clamp(FSub(rate, FDiv(npv, dnpv)))

\* A faulty LoopEnds: the loop goes on for as long as it does not converge.
LoopEnds_Never(iteration) == FALSE

\* for iteration in range(max_iterations): the range is used up
LoopEnds(iteration) == iteration >= max_iterations

\* A faulty FinalResult: None whatever the last npv was.
FinalResult_AlwaysNone(rate, npv) == None

\* return rate if abs(npv) < 0.01 else None
FinalResult(rate, npv) ==
    IF FLess(FAbs(npv), LooseTolerance) THEN rate ELSE None

---------------------------------------------------------------------------
(* The operations of PortfolioManager *)

NoMatching == [steps |-> <<>>, sells_done |-> <<>>]

\* No backend Portfolio has been made.
NoData == [accounts |-> <<>>]

\* No call of backend/calculations.py is under way.
NoSolver == [pc |-> "idle"]

\* PortfolioManager(): no file yet, an empty log.
Init ==
    /\ transactions = <<>>
    /\ portfolio_file = <<>>
    /\ last_call = [op |-> "__init__"]
    /\ returned = None
    /\ raised = None
    /\ matching = NoMatching
    /\ solver = NoSolver
    /\ portfolio_data = NoData

\* add_transaction(date, scheme_code, scheme_name, transaction_type, units,
\* nav, asset_type): an asset_type other than the two raises ValueError
\* before anything changes.
AddTransaction(date, scheme_code, scheme_name, transaction_type, units, nav, asset_type) ==
    /\ Len(transactions) < MaxTxns
    /\ IF asset_type \notin {"MUTUAL_FUND", "STOCK"}
       THEN /\ raised' = "ValueError"
            /\ returned' = None
            /\ UNCHANGED <<transactions, portfolio_file>>
       ELSE LET transaction == NewTransaction(date, scheme_code, scheme_name,
                                   transaction_type, units, nav, asset_type, "", "")
                sorted      == SortByDate(Append(transactions, transaction))
            IN  /\ transactions' = sorted
                /\ portfolio_file' = SavePortfolio(sorted)
                /\ returned' = transaction
                /\ raised' = None
    /\ last_call' = [op |-> "add_transaction"]
    /\ matching' = NoMatching
    /\ UNCHANGED <<solver, portfolio_data>>

\* delete_transaction(index)
DeleteTransaction(index) ==
    /\ IF 0 <= index /\ index < Len(transactions)
       THEN /\ transactions' = Pop(transactions, index)
            /\ portfolio_file' = SavePortfolio(transactions')
            /\ returned' = TRUE
       ELSE /\ UNCHANGED <<transactions, portfolio_file>>
            /\ returned' = FALSE
    /\ raised' = None
    /\ last_call' = [op |-> "delete_transaction"]
    /\ matching' = NoMatching
    /\ UNCHANGED <<solver, portfolio_data>>

\* calculate_capital_gains(scheme_code, is_equity)
CalculateCapitalGains(scheme_code, is_equity) ==
    /\ LET run == RunCapitalGains(transactions, scheme_code, is_equity)
       IN  /\ transactions' = run.txns
           /\ returned' = run.capital_gains
           /\ matching' = [steps |-> run.steps, sells_done |-> run.sells_done]
    /\ raised' = None
    /\ last_call' = [op |-> "calculate_capital_gains",
                     scheme_code |-> scheme_code, is_equity |-> is_equity]
    /\ UNCHANGED <<portfolio_file, solver, portfolio_data>>

\* get_holdings(current_navs, asset_type_filter)
GetHoldings(current_navs, asset_type_filter) ==
    /\ returned' = RunGetHoldings(transactions, current_navs, asset_type_filter)
    /\ raised' = None
    /\ last_call' = [op |-> "get_holdings", current_navs |-> current_navs,
                     asset_type_filter |-> asset_type_filter]
    /\ matching' = NoMatching
    /\ UNCHANGED <<transactions, portfolio_file, portfolio_data, solver>>

\* A new PortfolioManager on the same file: __init__ and load_portfolio.
Restart ==
    /\ transactions' = LoadPortfolio(portfolio_file)
    /\ last_call' = [op |-> "__init__"]
    /\ returned' = None
    /\ raised' = None
    /\ matching' = NoMatching
    /\ UNCHANGED <<portfolio_file, solver, portfolio_data>>

---------------------------------------------------------------------------
(* The calls of backend/calculations.py.  last_call holds the call and its
   arguments from the moment it is made; solver holds its locals. *)

\* What a call returned, in a form that stays comparable: whether it was
\* None, and the rate otherwise.
Outcome(result) ==
    [none |-> result = None, rate |-> IF result = None THEN FZero ELSE result]

\* The locals at the moment a function is called: for xirr, transactions is
\* the caller's list; calls counts the calls made with it and previous is
\* the outcome of the call before. rate, npv, dnpv and tested_rate are not
\* bound yet and stand at zero until iteration counts a pass.
NewCall(cash_flows, calls, previous) ==
    [pc |-> "called", transactions |-> cash_flows, sorted_txns |-> <<>>,
     days_amounts |-> <<>>, rate |-> FZero, npv |-> FZero, dnpv |-> FZero,
     tested_rate |-> FZero, iteration |-> 0, updates |-> 0, exit |-> None,
     calls |-> calls, previous |-> Outcome(previous)]

\* xirr, lines 26-46: too few cash flows return None at once; otherwise the
\* lists are built and the rate starts at the guess.
XirrEnter ==
    /\ solver.pc = "called"
    /\ last_call.op = "xirr"
    /\ IF TooFewCashFlows(solver.transactions)
       THEN /\ solver' = [solver EXCEPT !.pc = "done", !.exit = "too_few"]
            /\ returned' = None
       ELSE LET lists == SortCashFlows(solver.transactions)
            IN  /\ solver' = [solver EXCEPT
                                 !.pc = "loop",
                                 !.transactions = lists.transactions,
                                 !.sorted_txns = lists.sorted_txns,
                                 !.days_amounts = DaysAmounts(lists.sorted_txns),
                                 !.rate = last_call.guess]
                /\ UNCHANGED returned
    /\ raised' = None
    /\ UNCHANGED <<transactions, portfolio_file, portfolio_data, last_call, matching>>

\* xirr, lines 48-73: one pass of the loop body. npv and dnpv are computed
\* at the current rate; the call returns the rate if npv has converged,
\* leaves the loop if the derivative has vanished, and otherwise moves the
\* rate.
XirrIterate ==
    /\ solver.pc = "loop"
    /\ ~LoopEnds(solver.iteration)
    /\ LET rate == solver.rate
           npv  == Npv(solver.days_amounts, rate, Len(solver.days_amounts))
           dnpv == Dnpv(solver.days_amounts, rate, Len(solver.days_amounts))
           body == [solver EXCEPT !.npv = npv, !.dnpv = dnpv, !.tested_rate = rate,
                                  !.iteration = @ + 1]
       IN  IF Converged(npv)
           THEN /\ solver' = [body EXCEPT !.pc = "done", !.exit = "converged"]
                /\ returned' = rate
           ELSE IF DerivativeVanished(dnpv)
           THEN /\ solver' = [body EXCEPT !.pc = "break"]
                /\ UNCHANGED returned
           ELSE /\ solver' = [body EXCEPT !.rate = NewtonUpdate(rate, npv, dnpv),
                                          !.updates = @ + 1]
                /\ UNCHANGED returned
    /\ UNCHANGED <<transactions, portfolio_file, portfolio_data, last_call, raised, matching>>

\* xirr, lines 75-76: after the loop, whether left by break or used up.
XirrFinish ==
    /\ \/ solver.pc = "break"
       \/ solver.pc = "loop" /\ LoopEnds(solver.iteration)
    /\ solver' = [solver EXCEPT !.pc = "done",
                    !.exit = IF solver.pc = "break" THEN "derivative" ELSE "cap"]
    /\ returned' = FinalResult(solver.rate, solver.npv)
    /\ UNCHANGED <<transactions, portfolio_file, portfolio_data, last_call, raised, matching>>

\* The caller calls xirr once more with the same list and guess.
XirrAgain ==
    /\ solver.pc = "done"
    /\ last_call.op = "xirr"
    /\ solver.calls = 1
    /\ solver' = NewCall(solver.transactions, 2, returned)
    /\ returned' = None
    /\ UNCHANGED <<transactions, portfolio_file, portfolio_data, last_call, raised, matching>>

\* The largest float, about 1.797e308.
MaxFloat == <<1797, 305>>

\* A faulty AbsoluteReturn: the division is made whatever invested is.
AbsoluteReturn_NoGuard(invested, current_value) ==
    IF invested[1] = 0
    THEN [returned |-> None, raised |-> "ZeroDivisionError"]
    ELSE [returned |-> FMul(FDiv(FSub(current_value, invested), invested), FromInt(100)),
          raised   |-> None]

\* calculate_absolute_return(invested, current_value)
AbsoluteReturn(invested, current_value) ==
    IF invested[1] = 0
    THEN [returned |-> FZero, raised |-> None]
    ELSE [returned |-> FMul(FDiv(FSub(current_value, invested), invested), FromInt(100)),
          raised   |-> None]

\* years < 0.01
MinYears == <<1000, -5>>

\* calculate_cagr(invested, current_value, days); ** raises OverflowError
\* when its result is beyond the largest float.
Cagr(invested, current_value, days) ==
    IF ~FLess(FZero, invested) \/ ~FLess(FZero, current_value) \/ days <= 0
    THEN [returned |-> None, raised |-> None]
    ELSE LET years == YearFraction(days)
         IN  IF FLess(years, MinYears)
             THEN [returned |-> None, raised |-> None]
             ELSE LET growth == FPow(FDiv(current_value, invested), FDiv(FOne, years))
                  IN  IF FLess(MaxFloat, growth)
                      THEN [returned |-> None, raised |-> "OverflowError"]
                      ELSE [returned |-> FMul(FSub(growth, FOne), FromInt(100)),
                            raised   |-> None]

CalculateAbsoluteReturn ==
    /\ solver.pc = "called"
    /\ last_call.op = "calculate_absolute_return"
    /\ LET result == AbsoluteReturn(last_call.invested, last_call.current_value)
       IN  returned' = result.returned /\ raised' = result.raised
    /\ solver' = [solver EXCEPT !.pc = "done"]
    /\ UNCHANGED <<transactions, portfolio_file, portfolio_data, last_call, matching>>

CalculateCagr ==
    /\ solver.pc = "called"
    /\ last_call.op = "calculate_cagr"
    /\ LET result == Cagr(last_call.invested, last_call.current_value, last_call.days)
       IN  returned' = result.returned /\ raised' = result.raised
    /\ solver' = [solver EXCEPT !.pc = "done"]
    /\ UNCHANGED <<transactions, portfolio_file, portfolio_data, last_call, matching>>

---------------------------------------------------------------------------
(* The inputs of the model *)

SchemeName(c) == CASE c = "A" -> "Fund A" [] OTHER -> "Fund B"

Types == {"BUY", "SELL"}

\* The steps of a PortfolioManager whose callers add transactions dated in
\* D, of the schemes S and asset types A, of U[type] units at the NAVs N,
\* ask for the gains of the schemes G as equity (E) and for the holdings at
\* the price maps P.
Step(D, S, A, U, N, G, E, P) ==
    \/ \E d \in D, c \in S, a \in A, ty \in Types : \E u \in U[ty] :
          AddTransaction(d, c, SchemeName(c), ty, u, N[d], a)
    \/ \E i \in 0..MaxTxns : DeleteTransaction(i)
    \/ \E c \in G, eq \in E : CalculateCapitalGains(c, eq)
    \/ \E p \in P : GetHoldings(p, None)
    \/ Restart

\* The FIFO scenario: lots of 100 units are bought and 50 or 150 units are
\* sold, on three days at the NAVs 10, 20 and 30.
Days == {0, 10, 20}

NavOn == [d \in Days |-> CASE d = 0 -> 10 [] d = 10 -> 20 [] OTHER -> 30]

Units == [ty \in Types |-> IF ty = "BUY" THEN {100 * UnitScale}
                                         ELSE {50 * UnitScale, 150 * UnitScale}]

PriceMaps == {[c \in {"A"} |-> 75]}

\* "ETF" is an asset type add_transaction refuses.
AssetTypes == {"MUTUAL_FUND", "ETF"}

Next == Step(Days, {"A"}, AssetTypes, Units, NavOn, {None, "A"}, {TRUE}, PriceMaps)

Spec == Init /\ [][Next]_vars

---------------------------------------------------------------------------
(* Claims about the FIFO scenario *)

IsGainsCall(call) == call.op = "calculate_capital_gains"

IsHoldingsCall(call) == call.op = "get_holdings"

\* C1: calculate_capital_gains never mutates the transaction log: every
\* Transaction of self.transactions has the same fields after the call as
\* before it.
C1_GainsLeaveLogUnchanged ==
    [][IsGainsCall(last_call') => transactions' = transactions]_vars

\* C2: two calls of calculate_capital_gains in a row with the same
\* arguments return identical lists of records, and so do two calls of
\* get_holdings in a row with the same price map.
C2_RepeatedCallSameResult ==
    [][(last_call' = last_call /\ (IsGainsCall(last_call) \/ IsHoldingsCall(last_call)))
          => returned' = returned]_vars

\* C4: during FIFO matching the remaining quantity of every lot stays
\* >= 0: an iteration takes min(outstanding, lot remaining) from the head
\* lot, the excess of a SELL is taken from the next lot, and a lot leaves
\* the queue exactly when its remaining quantity reaches 0.
C4_LotsNeverNegative ==
    /\ \A i \in 1..Len(transactions) : transactions[i].units >= 0
    /\ \A k \in 1..Len(matching.steps) :
          LET s == matching.steps[k]
          IN  /\ s.units_from_buy <= s.lot_units
              /\ s.units_from_buy <= s.units_to_sell
              /\ s.units_from_buy \in {s.lot_units, s.units_to_sell}
              /\ s.lot_left = s.lot_units - s.units_from_buy
              /\ s.lot_left >= 0
              /\ s.popped <=> (s.lot_left = 0)
              /\ (k < Len(matching.steps) /\ matching.steps[k + 1].sell = s.sell)
                    => /\ s.popped
                       /\ matching.steps[k + 1].lot # s.lot
                       /\ matching.steps[k + 1].units_to_sell
                             = s.units_to_sell - s.units_from_buy

\* A SELL that used up one lot and took its excess from part of the next.
C4_Witness ==
    \E k \in 1..(Len(matching.steps) - 1) :
        /\ matching.steps[k].popped
        /\ matching.steps[k].units_from_buy > 0
        /\ matching.steps[k + 1].sell = matching.steps[k].sell
        /\ matching.steps[k + 1].units_from_buy > 0
        /\ ~matching.steps[k + 1].popped

\* What the iterations before the k-th took from the lot at position j.
RECURSIVE TakenBefore(_, _, _)
TakenBefore(steps, k, j) ==
    IF k <= 1 THEN 0
    ELSE TakenBefore(steps, k - 1, j)
           + (IF steps[k - 1].lot = j THEN steps[k - 1].units_from_buy ELSE 0)

\* The BUY at position j of the log comes before the one at position i in
\* FIFO order: an earlier date, or the same date and added earlier.
BoughtBefore(txns, j, i) ==
    /\ txns[j].transaction_type = "BUY"
    /\ txns[j].scheme_code = txns[i].scheme_code
    /\ \/ txns[j].date < txns[i].date
       \/ txns[j].date = txns[i].date /\ j < i

\* BUY 100 @ 10 on day 0, BUY 100 @ 20 on day 10, SELL 150 @ 30 on day 20.
ExampleLog ==
    << [date |-> 0, scheme_code |-> "A", scheme_name |-> "Fund A",
        transaction_type |-> "BUY", units |-> 100 * UnitScale, nav |-> 10,
        amount |-> 1000 * UnitScale, asset_type |-> "MUTUAL_FUND",
        exchange |-> "", notes |-> ""],
       [date |-> 10, scheme_code |-> "A", scheme_name |-> "Fund A",
        transaction_type |-> "BUY", units |-> 100 * UnitScale, nav |-> 20,
        amount |-> 2000 * UnitScale, asset_type |-> "MUTUAL_FUND",
        exchange |-> "", notes |-> ""],
       [date |-> 20, scheme_code |-> "A", scheme_name |-> "Fund A",
        transaction_type |-> "SELL", units |-> 150 * UnitScale, nav |-> 30,
        amount |-> 4500 * UnitScale, asset_type |-> "MUTUAL_FUND",
        exchange |-> "", notes |-> ""] >>

\* 100 units against the day-0 lot (gain 2000, 200 %), then 50 units
\* against the day-10 lot (gain 500, 50 %).
ExampleRecords ==
    << [sale_date |-> 20, scheme_code |-> "A", scheme_name |-> "Fund A",
        units_sold |-> 100 * UnitScale, sale_nav |-> 30,
        sale_amount |-> 3000 * UnitScale, purchase_nav |-> 10,
        purchase_amount |-> 1000 * UnitScale, gain_loss |-> 2000 * UnitScale,
        gain_loss_percentage |-> 200 * 100, holding_period_days |-> 20,
        gain_type |-> "STCG"],
       [sale_date |-> 20, scheme_code |-> "A", scheme_name |-> "Fund A",
        units_sold |-> 50 * UnitScale, sale_nav |-> 30,
        sale_amount |-> 1500 * UnitScale, purchase_nav |-> 20,
        purchase_amount |-> 1000 * UnitScale, gain_loss |-> 500 * UnitScale,
        gain_loss_percentage |-> 50 * 100, holding_period_days |-> 10,
        gain_type |-> "STCG"] >>

\* C5: on a log built by add_transaction every iteration takes from a BUY
\* lot of the SELL's scheme, and only once every lot bought before it
\* (earlier date; same date, added earlier) is exhausted; on the log BUY
\* 100 @ 10 day 0, BUY 100 @ 20 day 10, SELL 150 @ 30 day 20 the call
\* returns exactly the two records 100 units (gain 2000), 50 units (gain
\* 500).
C5_FifoOrder ==
    [][IsGainsCall(last_call') =>
         /\ \A k \in 1..Len(matching'.steps) :
               LET s == matching'.steps[k]
               IN  /\ transactions[s.lot].transaction_type = "BUY"
                   /\ transactions[s.sell].transaction_type = "SELL"
                   /\ transactions[s.lot].scheme_code = transactions[s.sell].scheme_code
                   /\ \A j \in 1..Len(transactions) :
                         BoughtBefore(transactions, j, s.lot)
                           => transactions[j].units
                                - TakenBefore(matching'.steps, k, j) <= 0
         /\ transactions = ExampleLog => returned' = ExampleRecords
      ]_vars

\* The call on the example log has returned its two records.
C5_Witness ==
    /\ IsGainsCall(last_call)
    /\ returned = ExampleRecords
    /\ Len(matching.steps) = 2
    /\ matching.steps[1].lot = 1
    /\ matching.steps[2].lot = 2

\* The result of a gains call holds something other than a realised-gain
\* record: the only way the list it returns could report a violation.
ReportsViolation(result) ==
    \E k \in 1..Len(result) : result[k].gain_type \notin {"LTCG", "STCG"}

\* C6: a SELL whose quantity exceeds what the BUY lots of its scheme still
\* hold is surfaced by calculate_capital_gains as a data-consistency
\* violation, raised or reported; the shortfall is never dropped silently.
C6_OversellSurfaced ==
    IsGainsCall(last_call) =>
        \A k \in 1..Len(matching.sells_done) :
            matching.sells_done[k].outstanding > 0
                => (raised # None \/ ReportsViolation(returned))

\* Purchases and sales one day, one year and three years apart, with the
\* caller asking for the equity and for the debt threshold.
TaxDays == {0, 1, 365, 1095}

TaxNavOn == [d \in TaxDays |-> 10 + (d \div 365)]

TaxUnits == [ty \in Types |-> {100 * UnitScale}]

NextTax ==
    Step(TaxDays, {"A"}, {"MUTUAL_FUND"}, TaxUnits, TaxNavOn, {None}, BOOLEAN, PriceMaps)

SpecTax == Init /\ [][NextTax]_vars

FracDays == {0, 10}

FracNavOn == [d \in FracDays |-> IF d = 0 THEN 1 ELSE 3]

FracUnits ==
    [c \in {"A", "B"} |-> [ty \in Types |->
        IF c = "B" THEN {UnitScale}
        ELSE IF ty = "BUY" THEN {UnitScale + 4} ELSE {UnitScale, UnitScale + 4}]]

FracPriceMaps == {[c \in {"A", "B"} |-> 2]}

\* A session that records transactions and queries them, deleting none.
NextFrac ==
    \/ \E d \in FracDays, c \in {"A", "B"}, ty \in Types : \E u \in FracUnits[c][ty] :
          AddTransaction(d, c, SchemeName(c), ty, u, FracNavOn[d], "MUTUAL_FUND")
    \/ \E c \in {None, "A"} : CalculateCapitalGains(c, TRUE)
    \/ \E p \in FracPriceMaps : GetHoldings(p, None)
    \/ Restart

SpecFrac == Init /\ [][NextFrac]_vars

\* Total quantity of the transactions of one type and scheme among the first
\* n of the log.
RECURSIVE SumUnits(_, _, _, _)
SumUnits(txns, scheme_code, transaction_type, n) ==
    IF n = 0 THEN 0
    ELSE SumUnits(txns, scheme_code, transaction_type, n - 1)
           + (IF /\ txns[n].scheme_code = scheme_code
                 /\ txns[n].transaction_type = transaction_type
              THEN txns[n].units ELSE 0)

\* Cumulative BUY quantity >= cumulative SELL quantity at every point of
\* the log.
Covered(txns, scheme_code) ==
    \A n \in 1..Len(txns) :
        SumUnits(txns, scheme_code, "BUY", n) >= SumUnits(txns, scheme_code, "SELL", n)

\* Sum of units_sold over the first n records, those of one scheme.
RECURSIVE SumUnitsSold(_, _, _)
SumUnitsSold(records, scheme_code, n) ==
    IF n = 0 THEN 0
    ELSE SumUnitsSold(records, scheme_code, n - 1)
           + (IF records[n].scheme_code = scheme_code
              THEN records[n].units_sold ELSE 0)

\* Sum of the quantities the first n iterations took from lots of one scheme.
RECURSIVE SumMatched(_, _, _, _)
SumMatched(steps, txns, scheme_code, n) ==
    IF n = 0 THEN 0
    ELSE SumMatched(steps, txns, scheme_code, n - 1)
           + (IF txns[steps[n].lot].scheme_code = scheme_code
              THEN steps[n].units_from_buy ELSE 0)

\* The schemes a gains call with this scheme_code argument goes through.
SchemesOfCall(txns, scheme_code) ==
    {txns[i].scheme_code : i \in {j \in 1..Len(txns) :
        scheme_code \in {None, ""} \/ txns[j].scheme_code = scheme_code}}

\* Every quantity of the scheme in the log has at most three decimals.
ThreeDecimals(txns, scheme_code) ==
    \A i \in 1..Len(txns) :
        txns[i].scheme_code = scheme_code => Round3(txns[i].units) = txns[i].units

Pairing(k) ==
    LET s        == matching.steps[k]
        sell_txn == transactions[s.sell]
        buy_txn  == transactions[s.lot]
        record   == returned[k]
    IN  /\ record.holding_period_days = sell_txn.date - buy_txn.date
        /\ record.sale_date = sell_txn.date
        /\ record.sale_nav = sell_txn.nav
        /\ record.purchase_nav = buy_txn.nav
        /\ record.scheme_code = sell_txn.scheme_code
        /\ buy_txn.scheme_code = sell_txn.scheme_code

\* matched_quantity * (sell price - lot price) of the k-th pairing.
PairingGain(k) ==
    matching.steps[k].units_from_buy
        * (transactions[matching.steps[k].sell].nav
             - transactions[matching.steps[k].lot].nav)

NetUnits(txns, scheme_code) ==
    SumUnits(txns, scheme_code, "BUY", Len(txns))
        - SumUnits(txns, scheme_code, "SELL", Len(txns))

\* C10: get_holdings reports for each scheme the sum of its BUY quantities
\* minus the sum of its SELL quantities over the log (to the three decimals
\* of total_units), every Holding returned has total_units > 0, and a scheme
\* whose net quantity is zero or negative is not in the result.
C10_HoldingsNetPositive ==
    IsHoldingsCall(last_call) =>
        \A k \in 1..Len(returned) :
            /\ returned[k].total_units
                  = Round3(NetUnits(transactions, returned[k].scheme_code))
            /\ returned[k].total_units > 0
            /\ NetUnits(transactions, returned[k].scheme_code) > 0

\* A transaction as a file written before asset_type, exchange and notes
\* existed holds it.
LegacyDict(date, scheme_code, transaction_type, units, nav) ==
    [date |-> date, scheme_code |-> scheme_code, scheme_name |-> SchemeName(scheme_code),
     transaction_type |-> transaction_type, units |-> units, nav |-> nav,
     amount |-> units * nav]

\* Portfolio files found on disk at start: none or an empty one, the example
\* log as save_portfolio wrote it, the same transactions latest first, and
\* an older file with two purchases latest first.
FilesOnDisk ==
    { <<>>,
      SavePortfolio(ExampleLog),
      SavePortfolio(<<ExampleLog[3], ExampleLog[2], ExampleLog[1]>>),
      << LegacyDict(10, "A", "BUY", 100 * UnitScale, 20),
         LegacyDict(0, "A", "BUY", 100 * UnitScale, 10) >> }

\* PortfolioManager(): the log is what load_portfolio reads from the file.
InitLoaded ==
    /\ portfolio_file \in FilesOnDisk
    /\ transactions = LoadPortfolio(portfolio_file)
    /\ last_call = [op |-> "__init__"]
    /\ returned = None
    /\ raised = None
    /\ matching = NoMatching
    /\ solver = NoSolver
    /\ portfolio_data = NoData

SpecLoad == InitLoaded /\ [][Next]_vars

\* C9: whatever the order of the transactions in the file the log was
\* loaded from, calculate_capital_gains returns the records it returns for
\* the same log sorted by date.
C9_LoadedLogResorted ==
    [][IsGainsCall(last_call') =>
         returned' = RunCapitalGains(SortByDate(transactions), last_call'.scheme_code,
                                     last_call'.is_equity).capital_gains
      ]_vars

\* The entry of a scheme in holdings_dict once get_holdings has replayed the
\* first n transactions of the log (nothing bought or sold: no entry yet).
EntryAfter(txns, n, scheme_code) ==
    LET holdings_dict == ReplayHoldings(SubSeq(txns, 1, n), None, <<>>)
        k             == HoldingIndex(holdings_dict, scheme_code)
    IN  IF k = 0 THEN [total_units |-> 0, invested_amount |-> <<0, 1>>]
        ELSE [total_units     |-> holdings_dict[k].total_units,
              invested_amount |-> holdings_dict[k].invested_amount]

\* f * h for fractions.
FracMul(f, h) ==
    LET g1 == GCD(f[1], h[2])
        g2 == GCD(h[1], f[2])
    IN  IF f[1] = 0 \/ h[1] = 0 THEN <<0, 1>>
        ELSE Frac((f[1] \div g1) * (h[1] \div g2), (f[2] \div g2) * (h[2] \div g1))

\* C11: in get_holdings a SELL that leaves a positive quantity takes the
\* invested amount to invested_before * (1 - sold_qty / total_qty_before),
\* which leaves the average cost invested / quantity as it was; a SELL that
\* brings the quantity to zero or below sets the invested amount to 0.
C11_SellReducesInvestedInProportion ==
    IsHoldingsCall(last_call) =>
        \A n \in 1..Len(transactions) :
            transactions[n].transaction_type = "SELL" =>
                LET before   == EntryAfter(transactions, n - 1, transactions[n].scheme_code)
                    after    == EntryAfter(transactions, n, transactions[n].scheme_code)
                    sold_qty == transactions[n].units
                IN  /\ after.total_units = before.total_units - sold_qty
                    /\ IF after.total_units > 0
                       THEN /\ after.invested_amount
                                 = FracMul(before.invested_amount,
                                           Frac(before.total_units - sold_qty,
                                                before.total_units))
                            /\ FracDivInt(after.invested_amount, after.total_units)
                                 = FracDivInt(before.invested_amount, before.total_units)
                       ELSE after.invested_amount = <<0, 1>>

\* get_holdings has replayed a log in which a SELL, at a price other than
\* the average cost, took part of a position and left some of it.
C11_Witness ==
    /\ IsHoldingsCall(last_call)
    /\ \E n \in 1..Len(transactions) :
          /\ transactions[n].transaction_type = "SELL"
          /\ EntryAfter(transactions, n, "A").total_units > 0
          /\ EntryAfter(transactions, n, "A").invested_amount[1] > 0
          /\ EntryAfter(transactions, n, "A").invested_amount
                # EntryAfter(transactions, n - 1, "A").invested_amount
          /\ transactions[n].nav * EntryAfter(transactions, n - 1, "A").total_units
                # EntryAfter(transactions, n - 1, "A").invested_amount[1]

---------------------------------------------------------------------------
(* The calls made of backend/calculations.py *)

\* The longest cash-flow list.
MaxFlows == 2

\* All lists of at most n elements of S.
RECURSIVE SeqsUpTo(_, _)
SeqsUpTo(S, n) ==
    IF n = 0 THEN {<<>>}
    ELSE LET shorter == SeqsUpTo(S, n - 1)
         IN  shorter \cup {Append(q, x) : q \in {r \in shorter : Len(r) = n - 1}, x \in S}

\* The cash flows the lists are made of: -1 and 20 after a year, 1.005 after
\* a year and after 400 days, -1 and 20 at the start.
CashFlows ==
    { [date |-> 0,   amount |-> FromInt(-1)],
      [date |-> 0,   amount |-> FromInt(20)],
      [date |-> 365, amount |-> FromInt(-1)],
      [date |-> 365, amount |-> <<1005, -3>>],
      [date |-> 365, amount |-> FromInt(20)],
      [date |-> 400, amount |-> <<1005, -3>>] }

\* guess = 0.1
Guesses == {<<1000, -4>>}

XirrCalls ==
    {[op |-> "xirr", transactions |-> t, guess |-> g] :
        t \in SeqsUpTo(CashFlows, MaxFlows), g \in Guesses}

\* 0, -1, 1, 2, 1000, 1100 and a million
Amounts == {FZero, FromInt(-1), FromInt(1), FromInt(2), FromInt(1000), FromInt(1100),
            FromInt(1000 * 1000)}

DayCounts == {-1, 0, 3, 4, 365, 730}

CagrCalls ==
    {[op |-> "calculate_cagr", invested |-> i, current_value |-> c, days |-> d] :
        i \in Amounts, c \in Amounts, d \in DayCounts}

AbsoluteReturnCalls ==
    {[op |-> "calculate_absolute_return", invested |-> i, current_value |-> c] :
        i \in Amounts, c \in Amounts}

MetricCalls == XirrCalls \cup CagrCalls \cup AbsoluteReturnCalls

\* A call of one of the functions has just been made.
InitMetrics ==
    /\ transactions = <<>>
    /\ portfolio_file = <<>>
    /\ last_call \in MetricCalls
    /\ returned = None
    /\ raised = None
    /\ matching = NoMatching
    /\ solver = NewCall(IF last_call.op = "xirr" THEN last_call.transactions ELSE <<>>,
                        1, None)
    /\ portfolio_data = NoData

NextMetrics ==
    \/ XirrEnter
    \/ XirrIterate
    \/ XirrFinish
    \/ XirrAgain
    \/ CalculateAbsoluteReturn
    \/ CalculateCagr

IsXirrCall == last_call.op = "xirr"

XirrDone == IsXirrCall /\ solver.pc = "done"

\* Every step of a call moves its position, its pass count or its call count.
progress == <<solver.pc, solver.iteration, solver.calls>>

\* The states in which a pass of the loop, calculate_cagr and
\* calculate_absolute_return can take their step: each of these steps is
\* defined for every such state and moves progress.
XirrIterateEnabled == IsXirrCall /\ solver.pc = "loop" /\ ~LoopEnds(solver.iteration)

CalculateCagrEnabled == solver.pc = "called" /\ last_call.op = "calculate_cagr"

CalculateAbsoluteReturnEnabled ==
    solver.pc = "called" /\ last_call.op = "calculate_absolute_return"

\* A call that has been made runs on: the interpreter takes the next step of
\* the function. Weak fairness of the three steps above is written out with
\* their enabling states; a step of the loop is one that counts a pass, a
\* step of the other two ends the call.
Fairness ==
    /\ WF_progress(XirrEnter)
    /\ WF_progress(XirrFinish)
    /\ \/ []<>~XirrIterateEnabled
       \/ []<><<solver'.iteration = solver.iteration + 1 /\ XirrIterate>>_progress
    /\ \/ []<>~CalculateCagrEnabled
       \/ []<><<solver'.pc = "done" /\ CalculateCagr>>_progress
    /\ \/ []<>~CalculateAbsoluteReturnEnabled
       \/ []<><<solver'.pc = "done" /\ CalculateAbsoluteReturn>>_progress

SpecMetrics == InitMetrics /\ [][NextMetrics]_vars /\ Fairness

---------------------------------------------------------------------------
(* xirr, calculate_cagr and calculate_absolute_return *)

\* C12: with an empty list or a list of fewer than 2 cash flows, xirr
\* returns None, without a pass of the loop and without raising; with 2 or
\* more it never leaves that way.
C12_TooFewReturnsNone ==
    IsXirrCall =>
        /\ Len(last_call.transactions) < 2 =>
              /\ solver.pc \in {"called", "done"}
              /\ solver.iteration = 0
              /\ raised = None
              /\ solver.pc = "done" => returned = None /\ solver.exit = "too_few"
        /\ solver.exit = "too_few" => Len(last_call.transactions) < 2

C12_Witness ==
    /\ XirrDone
    /\ Len(last_call.transactions) = 1
    /\ solver.exit = "too_few"
    /\ returned = None

\* C13: a rate returned by xirr is the rate at which the accepted NPV was
\* evaluated, also when the 100 passes are used up: no update of the rate
\* lies between the test and the return.
C13_ReturnedRateWasTested ==
    (XirrDone /\ returned # None) =>
        /\ returned = solver.tested_rate
        /\ solver.npv = Npv(solver.days_amounts, returned, Len(solver.days_amounts))

InRateRange(rate) == ~FLess(rate, RateMin) /\ ~FLess(RateMax, rate)

\* C15: once the rate has been updated it lies in [-0.99, 10]: so does the
\* rate of every NPV evaluation after the first, where 1 + rate > 0, and so
\* does every rate returned after an update.
C15_RateStaysClamped ==
    IsXirrCall =>
        /\ solver.updates > 0 =>
              /\ InRateRange(solver.rate)
              /\ FLess(FZero, FAdd(FOne, solver.rate))
        /\ solver.iteration > 1 =>
              /\ InRateRange(solver.tested_rate)
              /\ FLess(FZero, FAdd(FOne, solver.tested_rate))
        /\ (solver.pc = "done" /\ solver.updates > 0 /\ returned # None) =>
              InRateRange(returned)

\* The update left the range at its lower end and the rate was set to -0.99.
C15_Witness ==
    /\ IsXirrCall
    /\ solver.pc = "loop"
    /\ solver.updates > 0
    /\ solver.rate = RateMin
    /\ FLess(FSub(solver.tested_rate, FDiv(solver.npv, solver.dnpv)), RateMin)

\* The last pass found the derivative below 1e-10 and the NPV not below 1e-6.
DerivativeStop ==
    /\ IsXirrCall
    /\ solver.iteration > 0
    /\ DerivativeVanished(solver.dnpv)
    /\ ~Converged(solver.npv)

\* C16: a pass that finds |dNPV| < 1e-10 with |NPV| >= 1e-6 ends the loop
\* without updating the rate, and the call returns the current rate if
\* |NPV| < 0.01 and None otherwise.
C16_VanishedDerivativeStops ==
    /\ DerivativeStop =>
          /\ solver.pc \in {"break", "done"}
          /\ solver.rate = solver.tested_rate
          /\ solver.updates = solver.iteration - 1
          /\ solver.pc = "done" =>
                /\ solver.exit = "derivative"
                /\ IF FLess(FAbs(solver.npv), LooseTolerance)
                   THEN returned # None /\ returned = solver.rate
                   ELSE returned = None
    /\ (IsXirrCall /\ (solver.pc = "break" \/ solver.exit = "derivative")) => DerivativeStop

\* The derivative vanished with an NPV between 1e-6 and 0.01: the rate is
\* returned.
C16_Witness ==
    /\ DerivativeStop
    /\ solver.pc = "done"
    /\ returned # None
    /\ returned = solver.rate

\* The call is xirr on one outflow followed, on a later day, by one inflow.
IsRoundTripCall ==
    /\ IsXirrCall
    /\ Len(last_call.transactions) = 2
    /\ last_call.transactions[1].date < last_call.transactions[2].date
    /\ FLess(last_call.transactions[1].amount, FZero)
    /\ FLess(FZero, last_call.transactions[2].amount)

\* |NPV| of the call's cash flows at rate: |-X + Y / (1 + rate)^(d/365)|.
Residual(rate) == FAbs(Npv(solver.days_amounts, rate, Len(solver.days_amounts)))

\* 1e-4
RoundTripTolerance == <<1000, -7>>

IsStableSortByDate(sorted, list) ==
    /\ Len(sorted) = Len(list)
    /\ \E p \in [1..Len(list) -> 1..Len(list)] :
          /\ \A i, j \in 1..Len(list) : i # j => p[i] # p[j]
          /\ \A i \in 1..Len(list) : sorted[i] = list[p[i]]
          /\ \A i, j \in 1..Len(list) :
                i < j => \/ sorted[i].date < sorted[j].date
                         \/ sorted[i].date = sorted[j].date /\ p[i] < p[j]

\* C18: xirr leaves the caller's list as it was, in order and content (the
\* list it works on is a copy, sorted by date, flows of one date in their
\* original order), and a second call with the same list and guess returns
\* what the first returned.
C18_NoSideEffectDeterministic ==
    IsXirrCall =>
        /\ solver.transactions = last_call.transactions
        /\ solver.pc \in {"loop", "break"} =>
              IsStableSortByDate(solver.sorted_txns, last_call.transactions)
        /\ (solver.pc = "done" /\ solver.calls = 2) =>
              Outcome(returned) = solver.previous

\* A second call on a list given latest flow first has returned a rate.
C18_Witness ==
    /\ IsXirrCall
    /\ solver.pc = "done"
    /\ solver.calls = 2
    /\ Len(last_call.transactions) = 2
    /\ last_call.transactions[1].date > last_call.transactions[2].date
    /\ returned # None
    /\ solver.sorted_txns # last_call.transactions

IsCagrCall == last_call.op = "calculate_cagr"

\* invested <= 0, current_value <= 0, days <= 0 or days / 365 < 0.01, which
\* for whole days is days <= 3.
CagrNotApplicable ==
    \/ ~FLess(FZero, last_call.invested)
    \/ ~FLess(FZero, last_call.current_value)
    \/ last_call.days <= 3

\* C19: calculate_cagr returns None, without raising, when invested <= 0,
\* current_value <= 0, days <= 0 or days <= 3, and for every other input it
\* returns a number.
C19_CagrNoneOnlyWhenGuarded ==
    (IsCagrCall /\ solver.pc = "done") =>
        /\ raised = None
        /\ CagrNotApplicable <=> returned = None

IsAbsoluteReturnCall == last_call.op = "calculate_absolute_return"

\* C20: calculate_absolute_return(0, c) returns 0 for every c and raises
\* nothing; for invested # 0 it returns (c - invested) / invested * 100.
C20_AbsoluteReturnZeroGuard ==
    (IsAbsoluteReturnCall /\ solver.pc = "done") =>
        /\ raised = None
        /\ returned # None
        /\ IF last_call.invested = FZero
           THEN returned = FZero
           ELSE returned =
                   FMul(FDiv(FSub(last_call.current_value, last_call.invested),
                             last_call.invested),
                        FromInt(100))

C20_Witness ==
    /\ IsAbsoluteReturnCall
    /\ solver.pc = "done"
    /\ last_call.invested = FZero
    /\ last_call.current_value # FZero
    /\ returned = FZero
    /\ raised = None

---------------------------------------------------------------------------
(* Claims about the log between calls *)

\* C24: a calculate_capital_gains call leaves what get_holdings returns
\* as it was: for every price map the holdings computed from the log after
\* the call (quantity, invested amount, value) are those computed from the
\* log before it.
C24_HoldingsUnaffectedByGains ==
    [][IsGainsCall(last_call') =>
          \A p \in PriceMaps :
              RunGetHoldings(transactions', p, None) = RunGetHoldings(transactions, p, None)]_vars


\* C25: in every state reached by add_transaction, delete_transaction,
\* get_holdings and calculate_capital_gains, every transaction stored in the
\* log has amount = units * nav.
C25_AmountIsUnitsTimesNav ==
    \A i \in 1..Len(transactions) :
        transactions[i].amount = transactions[i].units * transactions[i].nav


\* The transactions of one type and scheme in a log.
CountOf(txns, scheme_code, transaction_type) ==
    Cardinality({i \in 1..Len(txns) :
        /\ txns[i].scheme_code = scheme_code
        /\ txns[i].transaction_type = transaction_type})

\* The records of one scheme in a list of CapitalGain records.
RecordsOf(records, scheme_code) ==
    Cardinality({k \in 1..Len(records) : records[k].scheme_code = scheme_code})

\* C26: the FIFO matching of a calculate_capital_gains call ends, every
\* iteration of it emits one record and either exhausts the SELL it works
\* on or pops the lot at the head of the queue, and so the records of an
\* instrument are at most its BUYs plus its SELLs in the log.
C26_RecordsBoundedByTransactions ==
    IsGainsCall(last_call) =>
        /\ Len(returned) = Len(matching.steps)
        /\ \A k \in 1..Len(matching.steps) :
              LET s == matching.steps[k]
              IN  s.popped \/ s.units_to_sell - s.units_from_buy = 0
        /\ \A c \in {"A", "B"} :
              RecordsOf(returned, c)
                 <= CountOf(transactions, c, "BUY") + CountOf(transactions, c, "SELL")

\* A call whose matching used up a lot without exhausting the SELL and then
\* exhausted the SELL without using up the next lot.
C26_Witness ==
    /\ IsGainsCall(last_call)
    /\ Len(returned) >= 2
    /\ \E k \in 1..Len(matching.steps) :
          /\ matching.steps[k].popped
          /\ matching.steps[k].units_to_sell - matching.steps[k].units_from_buy > 0
    /\ \E k \in 1..Len(matching.steps) :
          /\ ~matching.steps[k].popped
          /\ matching.steps[k].units_to_sell - matching.steps[k].units_from_buy = 0


---------------------------------------------------------------------------
(* The log under add_transaction and delete_transaction alone *)

NextLog ==
    \/ \E d \in Days, a \in AssetTypes, ty \in Types : \E u \in Units[ty] :
          AddTransaction(d, "A", SchemeName("A"), ty, u, NavOn[d], a)
    \/ \E i \in 0..MaxTxns : DeleteTransaction(i)

SpecLog == Init /\ [][NextLog]_vars

IsSortedByDate(txns) ==
    \A i, j \in 1..Len(txns) : i < j => txns[i].date <= txns[j].date

\* new is old with t put in at position p.
InsertedAt(old, new, t, p) ==
    new = SubSeq(old, 1, p - 1) \o <<t>> \o SubSeq(old, p, Len(old))

\* C27: starting from the empty log, after every add_transaction and
\* delete_transaction the log is sorted by date in non-decreasing order and
\* transactions of one date stand in the order in which they were added: an
\* added transaction goes behind every stored one of its date or earlier
\* and before every later one, the others keeping their order, and a
\* deletion takes one transaction out and moves no other.
C27_LogSortedStable ==
    [][/\ IsSortedByDate(transactions')
       /\ (last_call'.op = "add_transaction" /\ raised' = None) =>
             \E p \in 1..(Len(transactions) + 1) :
                 /\ InsertedAt(transactions, transactions', returned', p)
                 /\ \A i \in 1..(p - 1) : transactions[i].date <= returned'.date
                 /\ \A i \in p..Len(transactions) : transactions[i].date > returned'.date
       /\ (last_call'.op = "add_transaction" /\ raised' # None) =>
             transactions' = transactions
       /\ last_call'.op = "delete_transaction" =>
             IF returned'
             THEN \E i \in 1..Len(transactions) :
                     transactions' = SubSeq(transactions, 1, i - 1)
                                       \o SubSeq(transactions, i + 1, Len(transactions))
             ELSE transactions' = transactions]_vars

\* An added transaction that went behind a different one of its date and
\* before one of a later date.
C27_Witness ==
    /\ last_call.op = "add_transaction"
    /\ raised = None
    /\ \E p \in 2..(Len(transactions) - 1) :
          /\ transactions[p] = returned
          /\ transactions[p - 1].date = returned.date
          /\ transactions[p - 1] # returned
          /\ transactions[p + 1].date > returned.date


---------------------------------------------------------------------------
(* Instruments are matched one by one *)

\* The records of one scheme, in the order of the list.
RecordsOfScheme(records, scheme_code) ==
    SelectSeq(records, LAMBDA r : r.scheme_code = scheme_code)

\* C28: instruments are matched independently: no iteration takes from a
\* BUY lot of another scheme than that of the SELL it works on, every
\* record carries the scheme of its SELL, and on one and the same log
\* calculate_capital_gains(scheme_code = X) returns exactly the records of
\* scheme X that calculate_capital_gains() returns, in the same order.
C28_SchemesMatchedIndependently ==
    [][IsGainsCall(last_call') =>
          /\ \A k \in 1..Len(matching'.steps) :
                LET s == matching'.steps[k]
                IN  /\ transactions[s.lot].scheme_code = transactions[s.sell].scheme_code
                    /\ returned'[k].scheme_code = transactions[s.sell].scheme_code
          /\ \A X \in {"A", "B"} :
                LET one == RunCapitalGains(transactions, X, last_call'.is_equity)
                    all == RunCapitalGains(transactions, None, last_call'.is_equity)
                IN  /\ one.capital_gains = RecordsOfScheme(all.capital_gains, X)
                    /\ last_call'.scheme_code = X => returned' = one.capital_gains
                    /\ last_call'.scheme_code = None => returned' = all.capital_gains]_vars

\* A call that matched a SELL with a lot of its scheme although a BUY of
\* another scheme stands earlier in the log.
C28_Witness ==
    /\ IsGainsCall(last_call)
    /\ \E k \in 1..Len(matching.steps) :
          \E i \in 1..(matching.steps[k].lot - 1) :
              /\ transactions[i].transaction_type = "BUY"
              /\ transactions[i].scheme_code # transactions[matching.steps[k].sell].scheme_code
              /\ matching.steps[k].units_from_buy > 0


\* C29: no SELL is matched with a BUY lot dated after it: every record a
\* calculate_capital_gains call returns has holding_period_days >= 0, also
\* on logs in which a SELL stands before the BUYs.
C29_HoldingPeriodNeverNegative ==
    IsGainsCall(last_call) =>
        \A k \in 1..Len(returned) : returned[k].holding_period_days >= 0


---------------------------------------------------------------------------
(* Transaction types as the callers pass them *)

\* The type strings of a request or of an imported file: the web endpoint
\* and _import_portfolio_data pass them on as they come.
RequestTypes == {"buy", "SELL", "dividend"}

NextTypes ==
    \/ \E d \in Days, ty \in RequestTypes :
          AddTransaction(d, "A", SchemeName("A"), ty, 100 * UnitScale, NavOn[d], "MUTUAL_FUND")
    \/ \E i \in 0..MaxTxns : DeleteTransaction(i)
    \/ CalculateCapitalGains(None, TRUE)
    \/ \E p \in PriceMaps : GetHoldings(p, None)

SpecTypes == Init /\ [][NextTypes]_vars

\* C30: every transaction stored by add_transaction, called directly or
\* through the import, has the transaction_type 'BUY' or 'SELL', so that
\* none is passed over by get_holdings and by calculate_capital_gains alike.
C30_StoredTypeIsBuyOrSell ==
    \A i \in 1..Len(transactions) :
        transactions[i].transaction_type \in {"BUY", "SELL"}


---------------------------------------------------------------------------
(* calculations.calculate_capital_gains: the gains of the lots held, or of a
   redemption of some of their units, at current_nav.  A lot is a purchase
   {date, units, nav}; date and the current date are day numbers, units,
   navs and gains are whole numbers. *)

\* The LTCG exemption of one lakh.
LtcgExemption == 100000

\* sum(t['units'] for t in sorted_txns) over the first n lots.
RECURSIVE SumLotUnits(_, _)
SumLotUnits(lots, n) ==
    IF n = 0 THEN 0 ELSE SumLotUnits(lots, n - 1) + lots[n].units

\* A faulty UnitsToProcess: redemption_units as it comes, 0 included.
UnitsToProcess_NoDefault(redemption_units, sorted_txns) == redemption_units

\* units_to_process at the start of the loop.
UnitsToProcess(redemption_units, sorted_txns) ==
    IF redemption_units > 0 THEN redemption_units
    ELSE SumLotUnits(sorted_txns, Len(sorted_txns))

\* if holding_days > 365: the gain goes to ltcg, else to stcg.
IsLongTermLot(holding_days) == holding_days > 365

\* for txn in sorted_txns, from lot k on: st holds ltcg, stcg,
\* units_to_process and the lots processed so far.
RECURSIVE LotLoop(_, _, _, _, _)
LotLoop(sorted_txns, k, current_nav, current_date, st) ==
    IF k > Len(sorted_txns) \/ st.units_to_process <= 0 THEN st
    ELSE LET txn          == sorted_txns[k]
             units        == Min(txn.units, st.units_to_process)
             purchase_nav == txn.nav
             holding_days == current_date - txn.date
             gain         == units * (current_nav - purchase_nav)
             long         == IsLongTermLot(holding_days)
         IN  LotLoop(sorted_txns, k + 1, current_nav, current_date,
                     [ltcg             |-> IF long THEN st.ltcg + gain ELSE st.ltcg,
                      stcg             |-> IF long THEN st.stcg ELSE st.stcg + gain,
                      units_to_process |-> st.units_to_process - units,
                      steps            |-> Append(st.steps,
                                              [lot          |-> k,
                                               units        |-> units,
                                               holding_days |-> holding_days,
                                               gain         |-> gain,
                                               long_term    |-> long])])

\* max(0, ltcg - 100000)
LtcgTaxable(ltcg) == IF ltcg - LtcgExemption > 0 THEN ltcg - LtcgExemption ELSE 0

\* The whole function: the dict it returns, with the sorted list and the
\* lots its loop processed.
LotGains(lots, current_nav, redemption_units, current_date) ==
    LET sorted_txns == SortByDate(lots)
        st == LotLoop(sorted_txns, 1, current_nav, current_date,
                      [ltcg |-> 0, stcg |-> 0,
                       units_to_process |-> UnitsToProcess(redemption_units, sorted_txns),
                       steps |-> <<>>])
    IN  [sorted_txns |-> sorted_txns,
         steps       |-> st.steps,
         returned    |-> [ltcg         |-> st.ltcg,
                          stcg         |-> st.stcg,
                          total_gain   |-> st.ltcg + st.stcg,
                          ltcg_taxable |-> LtcgTaxable(st.ltcg),
                          stcg_taxable |-> st.stcg]]

\* calculate_capital_gains(transactions, current_nav, redemption_units), the
\* call held in last_call; current_date is datetime.now() of the call.
CalculateLotGains ==
    /\ solver.pc = "called"
    /\ last_call.op = "calculations.calculate_capital_gains"
    /\ LET run == LotGains(last_call.transactions, last_call.current_nav,
                           last_call.redemption_units, last_call.current_date)
       IN  /\ returned' = run.returned
           /\ solver' = [solver EXCEPT !.pc = "done", !.sorted_txns = run.sorted_txns]
           /\ matching' = [steps |-> run.steps, sells_done |-> <<>>]
    /\ raised' = None
    /\ UNCHANGED <<transactions, portfolio_file, portfolio_data, last_call>>

\* The day of the call.
Today == 2000

MaxLots == 2

\* Purchases made 364, 365, 366 and 1000 days before the call: 100 units at
\* 50, 50 units at 60 and 5000 units at 50.
LotDays == {Today - 1000, Today - 366, Today - 365, Today - 364}

LotSizes == {<<100, 50>>, <<50, 60>>, <<5000, 50>>}

Lots == {[date |-> d, units |-> s[1], nav |-> s[2]] : d \in LotDays, s \in LotSizes}

LotSeqs == UNION {[1..n -> Lots] : n \in 0..MaxLots}

LotGainsCalls ==
    {[op |-> "calculations.calculate_capital_gains", transactions |-> t,
      current_nav |-> p, redemption_units |-> r, current_date |-> Today] :
        t \in LotSeqs, p \in {40, 75}, r \in {0, 120, 10000}}

\* A call of the function has just been made.
InitLots ==
    /\ transactions = <<>>
    /\ portfolio_file = <<>>
    /\ last_call \in LotGainsCalls
    /\ returned = None
    /\ raised = None
    /\ matching = NoMatching
    /\ solver = NewCall(<<>>, 1, None)
    /\ portfolio_data = NoData

NextLots == CalculateLotGains

SpecLots == InitLots /\ [][NextLots]_vars

IsLotGainsDone ==
    last_call.op = "calculations.calculate_capital_gains" /\ solver.pc = "done"

\* The gains of the first n processed lots whose holding period is in days.
RECURSIVE SumGains(_, _, _)
SumGains(steps, days, n) ==
    IF n = 0 THEN 0
    ELSE SumGains(steps, days, n - 1)
           + (IF steps[n].holding_days \in days THEN steps[n].gain ELSE 0)

\* C22: calculations.calculate_capital_gains classifies a lot as long-term
\* when it has been held 365 days or more: ltcg is the sum of the gains of
\* the lots held >= 365 days at the date of the call (a lot held exactly 365
\* days among them), stcg that of the lots held less.
C22_LongTermFrom365Days ==
    IsLotGainsDone =>
        /\ returned.ltcg = SumGains(matching.steps, 365..Today, Len(matching.steps))
        /\ returned.stcg = SumGains(matching.steps, 0..364, Len(matching.steps))


\* The gain of the first n lots of a list, each sold in full at current_nav.
RECURSIVE SumFullGains(_, _, _)
SumFullGains(lots, current_nav, n) ==
    IF n = 0 THEN 0
    ELSE SumFullGains(lots, current_nav, n - 1)
           + lots[n].units * (current_nav - lots[n].nav)

\* The units of the first n processed lots.
RECURSIVE SumProcessed(_, _)
SumProcessed(steps, n) ==
    IF n = 0 THEN 0 ELSE SumProcessed(steps, n - 1) + steps[n].units

\* The lots of the scenario: 100 units bought at 50 and, later, 50 at 60.
IsScenario(lots) ==
    /\ Len(lots) = 2
    /\ \E i, j \in 1..2 :
          /\ i # j
          /\ lots[i].units = 100 /\ lots[i].nav = 50
          /\ lots[j].units = 50 /\ lots[j].nav = 60

\* C23: calculations.calculate_capital_gains works through the lots in
\* ascending date order.  With redemption_units = 0 every lot is processed
\* in full and total_gain = ltcg + stcg is the sum over all lots of
\* units * (current_nav - nav): 3250 for 100 @ 50 and 50 @ 60 at 75.  With
\* redemption_units > 0 the units processed are min(redemption_units, total
\* units), the oldest lots first, each in full but the last.  ltcg_taxable
\* is max(0, ltcg - 100000) and stcg_taxable is stcg.
C23_LotsInFullOldestFirst ==
    IsLotGainsDone =>
        LET lots   == last_call.transactions
            sorted == solver.sorted_txns
            steps  == matching.steps
            total  == SumLotUnits(lots, Len(lots))
        IN  /\ IsStableSortByDate(sorted, lots)
            /\ Len(steps) <= Len(sorted)
            /\ \A k \in 1..Len(steps) :
                  /\ steps[k].lot = k
                  /\ steps[k].units <= sorted[k].units
                  /\ k < Len(steps) => steps[k].units = sorted[k].units
                  /\ steps[k].gain = steps[k].units * (last_call.current_nav - sorted[k].nav)
            /\ returned.total_gain = returned.ltcg + returned.stcg
            /\ returned.total_gain = SumGains(steps, 0..Today, Len(steps))
            /\ last_call.redemption_units = 0 =>
                  /\ Len(steps) = Len(sorted)
                  /\ \A k \in 1..Len(steps) : steps[k].units = sorted[k].units
                  /\ returned.total_gain = SumFullGains(lots, last_call.current_nav, Len(lots))
                  /\ (IsScenario(lots) /\ last_call.current_nav = 75) =>
                        returned.total_gain = 3250
            /\ last_call.redemption_units > 0 =>
                  SumProcessed(steps, Len(steps)) = Min(last_call.redemption_units, total)
            /\ returned.ltcg_taxable
                  = (IF returned.ltcg - 100000 > 0 THEN returned.ltcg - 100000 ELSE 0)
            /\ returned.stcg_taxable = returned.stcg

\* The scenario with the later purchase first in the list and none of the
\* lots redeemed, a redemption that ends inside the second lot, and a
\* long-term gain above the exemption beside a short-term gain.
C23_Witness ==
    /\ IsLotGainsDone
    /\ \/ /\ IsScenario(last_call.transactions)
          /\ last_call.transactions[1].date > last_call.transactions[2].date
          /\ last_call.current_nav = 75
          /\ last_call.redemption_units = 0
          /\ returned.ltcg = 2500
          /\ returned.stcg = 750
       \/ /\ Len(matching.steps) = 2
          /\ last_call.redemption_units = 120
          /\ matching.steps[2].units = 20
          /\ last_call.transactions[1].date > last_call.transactions[2].date
       \/ /\ last_call.redemption_units = 0
          /\ Len(matching.steps) = 2
          /\ returned.ltcg_taxable > 0
          /\ returned.stcg_taxable > 0


---------------------------------------------------------------------------
(* backend/portfolio.py: Portfolio, the holdings of several PAN accounts,
   and calculate_portfolio_metrics of backend/calculations.py.  A holding
   is a dict; the keys update_nav_data sets stand at 0 until it has set them
   (the summaries read them with .get(key, 0)).  Units, navs and amounts are
   whole numbers here and become floats where calculate_absolute_return
   takes them.  The lists a summary hands to xirr are kept in solver, one
   entry per call of xirr; what xirr makes of a list is the subject of
   XirrEnter, XirrIterate and XirrFinish, and the 'xirr' entry of the dicts
   returned (that rate times 100, or None) is left out of them here. *)

\* The position of the account of a PAN in data['accounts'] (0: not a key).
AccountIndex(d, pan) ==
    IF \E i \in 1..Len(d.accounts) : d.accounts[i].pan = pan
    THEN CHOOSE i \in 1..Len(d.accounts) : d.accounts[i].pan = pan
    ELSE 0

\* get_pan_accounts
GetPanAccounts(d) == [i \in 1..Len(d.accounts) |-> d.accounts[i].pan]

\* get_holdings_by_pan
GetHoldingsByPan(d, pan) ==
    IF AccountIndex(d, pan) = 0 THEN <<>>
    ELSE d.accounts[AccountIndex(d, pan)].holdings

\* get_all_holdings writes holding['pan'] = pan into every holding of data:
\* data as the call leaves it.
TagHoldings(d) ==
    [accounts |->
        [i \in 1..Len(d.accounts) |->
            [d.accounts[i] EXCEPT !.holdings =
                [k \in 1..Len(d.accounts[i].holdings) |->
                    [d.accounts[i].holdings[k] EXCEPT !.tagged_pan = d.accounts[i].pan]]]]]

\* The lists s[1], ..., s[n] one after the other.
RECURSIVE Concat(_, _)
Concat(s, n) == IF n = 0 THEN <<>> ELSE Concat(s, n - 1) \o s[n]

\* get_all_holdings: the list returned.
GetAllHoldings(d) ==
    Concat([i \in 1..Len(d.accounts) |-> TagHoldings(d).accounts[i].holdings],
           Len(d.accounts))

\* txn_copy = txn.copy(); txn_copy['amount'] = -txn_copy['units'] *
\* txn_copy['nav'], for every transaction of a holding.
TxnCopies(txns) ==
    [i \in 1..Len(txns) |->
        [date   |-> txns[i].date,
         units  |-> txns[i].units,
         nav    |-> txns[i].nav,
         type   |-> txns[i].type,
         amount |-> (-txns[i].units) * txns[i].nav]]

\* sum(h[key] for h in holdings) over the first n, for the two keys.
RECURSIVE SumInvested(_, _)
SumInvested(holdings, n) ==
    IF n = 0 THEN 0 ELSE SumInvested(holdings, n - 1) + holdings[n].invested

RECURSIVE SumCurrentValue(_, _)
SumCurrentValue(holdings, n) ==
    IF n = 0 THEN 0 ELSE SumCurrentValue(holdings, n - 1) + holdings[n].current_value

\* min(t['date'] for t in txns)
MinDate(txns) ==
    CHOOSE d \in {txns[i].date : i \in 1..Len(txns)} :
        \A i \in 1..Len(txns) : d <= txns[i].date

\* total_days and total_weight over the first n holdings.
RECURSIVE SumDays(_, _, _)
SumDays(holdings, now, n) ==
    IF n = 0 THEN [total_days |-> 0, total_weight |-> 0]
    ELSE LET s == SumDays(holdings, now, n - 1)
             h == holdings[n]
         IN  IF h.transactions # <<>>
             THEN [total_days   |-> s.total_days
                                      + (now - MinDate(h.transactions)) * h.current_value,
                   total_weight |-> s.total_weight + h.current_value]
             ELSE s

\* all_transactions.append({'date': datetime.now(), 'amount':
\* total_current}): the list handed to xirr, the transaction copies and,
\* last, the current value at the date of the call.
WithCurrentValue(all_transactions, total_current, now) ==
    Append(all_transactions, [date |-> now, amount |-> total_current])

\* calculate_portfolio_metrics(holdings): the dict returned and the list
\* handed to xirr.  avg_holding_years is in hundredths.
PortfolioMetrics(holdings, now) ==
    LET total_invested == SumInvested(holdings, Len(holdings))
        total_current  == SumCurrentValue(holdings, Len(holdings))
        cash_flows     == WithCurrentValue(
                              Concat([k \in 1..Len(holdings) |-> holdings[k].transactions],
                                     Len(holdings)),
                              total_current, now)
        sums           == SumDays(holdings, now, Len(holdings))
    IN  [cash_flows |-> cash_flows,
         returned   |->
            [total_invested      |-> total_invested,
             current_value       |-> total_current,
             total_gain          |-> total_current - total_invested,
             absolute_return_pct |-> AbsoluteReturn(FromInt(total_invested),
                                                    FromInt(total_current)).returned,
             avg_holding_days    |-> IF sums.total_weight > 0
                                     THEN sums.total_days \div sums.total_weight ELSE 0,
             avg_holding_years   |-> IF sums.total_weight > 0
                                     THEN RoundQuot(sums.total_days,
                                                    sums.total_weight * 365, 2)
                                     ELSE 0]]


\* metrics['pan'] = pan; metrics['holdings_count'] = len(holdings)
WithPan(returned_metrics, pan, holdings_count) ==
    [total_invested      |-> returned_metrics.total_invested,
     current_value       |-> returned_metrics.current_value,
     total_gain          |-> returned_metrics.total_gain,
     absolute_return_pct |-> returned_metrics.absolute_return_pct,
     avg_holding_days    |-> returned_metrics.avg_holding_days,
     avg_holding_years   |-> returned_metrics.avg_holding_years,
     pan                 |-> pan,
     holdings_count      |-> holdings_count]

\* calculate_pan_summary(pan): the dict returned and the lists handed to
\* xirr (none when the PAN has no holdings).
PanSummary(d, pan, now) ==
    LET holdings == GetHoldingsByPan(d, pan)
        prepared_holdings ==
            [k \in 1..Len(holdings) |->
                [invested      |-> holdings[k].invested,
                 current_value |-> holdings[k].current_value,
                 transactions  |-> TxnCopies(holdings[k].transactions)]]
    IN  IF holdings = <<>>
        THEN [xirr_calls |-> <<>>,
              returned   |-> [pan |-> pan, total_invested |-> 0, current_value |-> 0,
                              total_gain |-> 0, holdings_count |-> 0]]
        ELSE CHOOSE summary \in
                 {[xirr_calls |-> <<[transactions |-> metrics.cash_flows, summary |-> pan]>>,
                   returned   |-> WithPan(metrics.returned, pan, Len(holdings))] :
                      metrics \in {PortfolioMetrics(prepared_holdings, now)}} : TRUE

\* sum(s[key] for s in all_summaries) over the first n.
RECURSIVE SumSummaries(_, _, _)
SumSummaries(all_summaries, key, n) ==
    IF n = 0 THEN 0
    ELSE SumSummaries(all_summaries, key, n - 1) + all_summaries[n].returned[key]

\* calculate_total_summary(), all_summaries being what calculate_pan_summary
\* gave for each PAN: the dict returned, the lists handed to xirr (by the
\* summaries of the PANs and then for the whole) and data as the call
\* leaves it.
TotalSummary(d, all_summaries, now) ==
    LET total_invested == SumSummaries(all_summaries, "total_invested", Len(all_summaries))
        total_current  == SumSummaries(all_summaries, "current_value", Len(all_summaries))
        total_gain     == total_current - total_invested
        all_holdings   == GetAllHoldings(d)
        cash_flows     == WithCurrentValue(
                              Concat([k \in 1..Len(all_holdings) |->
                                         TxnCopies(all_holdings[k].transactions)],
                                     Len(all_holdings)),
                              total_current, now)
    IN  [data       |-> TagHoldings(d),
         xirr_calls |-> Concat([i \in 1..Len(all_summaries) |-> all_summaries[i].xirr_calls],
                               Len(all_summaries))
                          \o <<[transactions |-> cash_flows, summary |-> "total"]>>,
         returned   |->
            [total_invested      |-> total_invested,
             current_value       |-> total_current,
             total_gain          |-> total_gain,
             absolute_return_pct |-> IF total_invested > 0
                                     THEN FMul(FDiv(FromInt(total_gain),
                                                    FromInt(total_invested)),
                                               FromInt(100))
                                     ELSE FZero,
             accounts_count      |-> Len(all_summaries),
             total_holdings      |-> SumSummaries(all_summaries, "holdings_count",
                                                  Len(all_summaries)),
             pan_summaries       |-> [i \in 1..Len(all_summaries) |->
                                         all_summaries[i].returned]]]

\* for pan in self.get_pan_accounts(): all_summaries.append(
\* self.calculate_pan_summary(pan))
AllSummaries(d, now) ==
    <<>> \o [i \in 1..Len(GetPanAccounts(d)) |-> PanSummary(d, GetPanAccounts(d)[i], now)]

\* A holding as add_transaction creates it.
NewHolding(scheme_code) ==
    [scheme_code |-> scheme_code, tagged_pan |-> None, current_nav |-> 0, units |-> 0,
     current_value |-> 0, invested |-> 0, gain_loss |-> 0, transactions |-> <<>>]

\* The position of the holding of a scheme in a list of holdings (0: none).
HoldingOfScheme(holdings, scheme_code) ==
    IF \E k \in 1..Len(holdings) : holdings[k].scheme_code = scheme_code
    THEN CHOOSE k \in 1..Len(holdings) :
            /\ holdings[k].scheme_code = scheme_code
            /\ \A j \in 1..(k - 1) : holdings[j].scheme_code # scheme_code
    ELSE 0

\* The transactions of all holdings of data.
CountTransactions(d) ==
    Len(Concat([k \in 1..Len(GetAllHoldings(d)) |-> GetAllHoldings(d)[k].transactions],
               Len(GetAllHoldings(d))))

MaxHoldingTxns == 2

\* Portfolio.add_transaction(pan, scheme_code, transaction)
PortfolioAddTransaction(pan, scheme_code, transaction) ==
    /\ CountTransactions(portfolio_data) < MaxHoldingTxns
    /\ LET a        == AccountIndex(portfolio_data, pan)
           holdings == GetHoldingsByPan(portfolio_data, pan)
           with     == IF HoldingOfScheme(holdings, scheme_code) = 0
                       THEN Append(holdings, NewHolding(scheme_code))
                       ELSE holdings
           k        == HoldingOfScheme(with, scheme_code)
       IN  IF a = 0
           THEN /\ returned' = FALSE
                /\ UNCHANGED portfolio_data
           ELSE /\ portfolio_data' =
                      [portfolio_data EXCEPT !.accounts[a].holdings =
                          [with EXCEPT ![k].transactions = Append(@, transaction)]]
                /\ returned' = TRUE
    /\ last_call' = [op |-> "Portfolio.add_transaction"]
    /\ raised' = None
    /\ solver' = NoSolver
    /\ UNCHANGED <<transactions, portfolio_file, matching>>

\* sum(txn.get('units', 0) ...) and sum(units * nav ...) over the first n
\* transactions of a holding.
RECURSIVE SumTxns(_, _)
SumTxns(txns, n) ==
    IF n = 0 THEN [units |-> 0, invested |-> 0]
    ELSE [units    |-> SumTxns(txns, n - 1).units + txns[n].units,
          invested |-> SumTxns(txns, n - 1).invested + txns[n].units * txns[n].nav]

\* update_nav_data(), get_latest_nav answering every scheme with nav_data
\* (answered FALSE: it returned None, the holdings stay as they are).
UpdateNavData(nav_data) ==
    /\ portfolio_data' =
          IF ~nav_data.answered THEN portfolio_data
          ELSE [accounts |->
                  [i \in 1..Len(portfolio_data.accounts) |->
                      [portfolio_data.accounts[i] EXCEPT !.holdings =
                          [k \in 1..Len(portfolio_data.accounts[i].holdings) |->
                              LET h == portfolio_data.accounts[i].holdings[k]
                                  s == SumTxns(h.transactions, Len(h.transactions))
                              IN  [h EXCEPT !.current_nav = nav_data.nav,
                                            !.units = s.units,
                                            !.current_value = s.units * nav_data.nav,
                                            !.invested = s.invested,
                                            !.gain_loss = s.units * nav_data.nav
                                                            - s.invested]]]]]
    /\ last_call' = [op |-> "update_nav_data"]
    /\ returned' = None
    /\ raised' = None
    /\ solver' = NoSolver
    /\ UNCHANGED <<transactions, portfolio_file, matching>>

\* calculate_pan_summary(pan)
CalculatePanSummary(pan) ==
    /\ \E run \in {PanSummary(portfolio_data, pan, Today)} :
          /\ returned' = run.returned
          /\ solver' = [pc |-> "done", xirr_calls |-> run.xirr_calls]
    /\ last_call' = [op |-> "calculate_pan_summary", pan |-> pan]
    /\ raised' = None
    /\ UNCHANGED <<transactions, portfolio_file, matching, portfolio_data>>

\* calculate_total_summary()
CalculateTotalSummary ==
    /\ \E all_summaries \in {AllSummaries(portfolio_data, Today)} :
          \E run \in {TotalSummary(portfolio_data, all_summaries, Today)} :
              /\ returned' = run.returned
              /\ solver' = [pc |-> "done", xirr_calls |-> run.xirr_calls]
              /\ portfolio_data' = run.data
    /\ last_call' = [op |-> "calculate_total_summary"]
    /\ raised' = None
    /\ UNCHANGED <<transactions, portfolio_file, matching>>

\* Purchases of 100 units at 10 and redemptions of 50 units at 12, one and
\* two years before the call; a redemption carries its units as the file
\* it came from gave them, positive (cas_parser) or negative.
HoldingTxns ==
    {[date |-> d, units |-> u[2], nav |-> u[3], type |-> u[1]] :
        d \in {Today - 730, Today - 365},
        u \in {<<"purchase", 100, 10>>, <<"redemption", 50, 12>>, <<"redemption", -50, 12>>}}

\* What get_latest_nav answers: nothing, or a NAV of 15.
NavAnswers == {[answered |-> FALSE, nav |-> 0], [answered |-> TRUE, nav |-> 15]}

\* A Portfolio of two PAN accounts without holdings.
InitPortfolio ==
    /\ transactions = <<>>
    /\ portfolio_file = <<>>
    /\ last_call = [op |-> "__init__"]
    /\ returned = None
    /\ raised = None
    /\ matching = NoMatching
    /\ solver = NoSolver
    /\ portfolio_data = [accounts |-> <<[pan |-> "P1", holdings |-> <<>>],
                                       [pan |-> "P2", holdings |-> <<>>]>>]

NextPortfolio ==
    \/ \E pan \in {"P1", "P2", "P3"}, t \in HoldingTxns :
          PortfolioAddTransaction(pan, "A", t)
    \/ \E nav_data \in NavAnswers : UpdateNavData(nav_data)
    \/ \E pan \in {"P1", "P2"} : CalculatePanSummary(pan)
    \/ CalculateTotalSummary

SpecPortfolio == InitPortfolio /\ [][NextPortfolio]_vars

IsSummaryCall == last_call.op \in {"calculate_pan_summary", "calculate_total_summary"}

\* The current value of the holdings a summary is made for.
CurrentValueOf(d, summary) ==
    IF summary = "total"
    THEN SumCurrentValue(GetAllHoldings(d), Len(GetAllHoldings(d)))
    ELSE SumCurrentValue(GetHoldingsByPan(d, summary), Len(GetHoldingsByPan(d, summary)))

\* C21: in every list calculate_pan_summary and calculate_total_summary
\* hand to xirr, a purchase (BUY) stands with a negative amount, a
\* redemption (SELL) with a positive amount, and the list ends with one
\* flow more than the transactions: the total current value, dated at the
\* call.
C21_CashFlowSigns ==
    IsSummaryCall =>
        \A c \in 1..Len(solver.xirr_calls) :
            LET flows == solver.xirr_calls[c].transactions
                last  == flows[Len(flows)]
            IN  /\ \A i \in 1..(Len(flows) - 1) :
                      /\ "type" \in DOMAIN flows[i]
                      /\ flows[i].type = "purchase" => flows[i].amount < 0
                      /\ flows[i].type = "redemption" => flows[i].amount > 0
                /\ "type" \notin DOMAIN last
                /\ last.date = Today
                /\ last.amount = CurrentValueOf(portfolio_data, solver.xirr_calls[c].summary)

====
